---- MODULE Spec2Model ----
(***************************************************************************)
(* Model of the second-brain knowledge core: the shared knowledge-base     *)
(* handle (tokio RwLock<Option<KnowledgeBase>>) used by the ASR thread,    *)
(* the upload command and ask(), and the knowledge store operations        *)
(* (search_knowledge, cleanup_orphaned_chunks, delete_meeting, ...).       *)
(*                                                                         *)
(* SpecConc : fine-grained interleaving of ingestion and query over the    *)
(*            shared handle (one step per awaited call).                   *)
(* Spec     : the store operations, one action per handler.                *)
(* SpecMeet : meetings and the cascade of delete_meeting.                  *)
(* SpecAsk  : ask() over the Graph-RAG query.                              *)
(* SpecSeg  : the segment table: add_segment and relabel_speakers.         *)
(* SpecIng  : upload_document / add_knowledge_source with its extraction.  *)
(* SpecTime : the temporal parser applied to questions.                    *)
(* SpecItems: action items, their status and the dashboard's open items.   *)
(* SpecBoot : the root page from launch to the main app, with the setup    *)
(*            wizard and the initialization of the engines.                *)
(* SpecPipe : the audio pipeline and the transcription service of the      *)
(*            frontend, with the messages of the backend in flight.        *)
(* SpecUi   : starting and ending a meeting from the main UI.              *)
(* SpecDetail / LiveDetail : the meeting detail page and the post-meeting  *)
(*            highlights.                                                  *)
(* SpecOverlay / LiveOverlay : the suggestions overlay.                    *)
(* SpecTurn / LiveTurn : smart turn detection with a clock.                *)
(***************************************************************************)
EXTENDS Integers, Sequences, FiniteSets, TLC

\* ------------------------------------------------------------------ bounds
MaxUnits == 1          \* text units each ingestion producer ingests

None == "none"

\* ------------------------------------------------------------ state (conc)
VARIABLES
  pc,          \* position of each process
  kbWriter,    \* holder of the write guard of the kb handle, or None
  kbReaders,   \* holders of a read guard of the kb handle
  kbSome,      \* the Option<KnowledgeBase> inside the handle is Some
  unit,        \* the text unit an ingestion producer is working on
  unitNo,      \* number of units a producer has finished
  found,       \* result of the producer's name lookup (create-if-absent)
  nodeRows,    \* number of Person/Topic rows per normalized name
  mentions,    \* mention_count per normalized name
  storedRows,  \* segment / chunk rows written per producer
  entRows,     \* units whose entity upserts are in the store
  relRows,     \* units whose entity_relation rows are in the store
  observed,    \* what the last reader saw of entRows / relRows
  \* ---- knowledge store (sources and chunks)
  sources,     \* ids of the knowledge_source rows
  chunks,      \* the knowledge_chunk rows: [cid, source_id]
  lastOp,      \* the last store operation and what it returned
  prevOp,      \* the operation before it
  \* ---- meetings and their children
  meetings,    \* ids of the meeting rows
  rows,        \* the rows and edges that belong to a meeting: [table, meeting_id, n]
  mOp,         \* the last meeting operation and what its caller saw
  \* ---- what ask() queries
  graph,       \* meetings, people, topics, open action items, decisions (by meeting), chunks
  askOp,       \* the last ask() and what its caller saw
  \* ---- the segment table with its fields
  segs,        \* the segment rows: [table, meeting_id, n, speaker, text, start_ms, end_ms, embedded]
  ingested,    \* what add_segment was given for every segment it accepted
  sOp,         \* the last segment operation and what it returned
  current_meeting_id, \* the id of the meeting being recorded, or None
  \* ---- entities of knowledge sources
  srcEntities, \* person / topic rows upserted from knowledge sources
  srcRelations,\* entity_relation rows tagged with a knowledge_source_id
  ingOp,       \* the last upload and what it returned
  \* ---- temporal parsing
  clock,       \* the wall clock
  tOp,         \* the last call of the temporal parser and what it returned
  \* ---- action items
  actionItems, \* the action_item rows, newest first: [id, status, deadline]
  iOp,         \* the last action-item operation and what it showed
  \* ---- the root page and the engines
  settings,    \* the saved llm_url and the app state llm_setup_complete
  page,        \* the flags of the root page
  engines,     \* which engines of the backend are initialized
  boot,        \* where the root page is in its launch sequence
  bOp,         \* the last command a page invoked and how it ended
  \* ---- the audio pipeline and the transcription service
  svc,         \* the fields of the TranscriptionService
  backend,     \* the channel subscription, the event listeners, the events produced
  pipe,        \* the fields of the AudioPipeline
  task,        \* where initialize() and destroy() are in their awaits
  wire,        \* transcription messages on their way to the frontend
  got,         \* how often the callback was called with each event
  pOp,         \* the last step of the pipeline part
  \* ---- starting and ending a meeting from the main UI
  ui,          \* the state of the SecondBrain component
  calls,       \* the handlers in flight and the command each waits for
  be,          \* what the backend knows: meetings created, current meeting, recording
  uOp,         \* the last step of the main UI
  \* ---- the meeting detail page and the post-meeting highlights
  store,       \* what the backend holds of the displayed meeting
  highlights,  \* where processPostMeetingHighlights is
  detail,      \* the fields of the meeting detail page
  loads,       \* the calls of loadMeetingData in flight
  dOp,         \* the last step of the detail page part
  \* ---- the suggestions overlay
  ov,          \* the state of the overlay page
  oOp,         \* the last step of the overlay
  \* ---- smart turn detection
  smart,       \* the callback and the state per source of the SmartTurnService
  elapsed,     \* the seconds that have passed
  emitted,     \* the last turn result emitted for each source since it spoke
  stOp         \* the last step of the turn detection

concVars == <<pc, kbWriter, kbReaders, kbSome, unit, unitNo, found,
              nodeRows, mentions, storedRows, entRows, relRows, observed>>

knowVars == <<sources, chunks, lastOp, prevOp>>
meetVars == <<meetings, rows, mOp>>
askVars == <<graph, askOp>>
segVars == <<segs, ingested, sOp, current_meeting_id>>
ingVars == <<srcEntities, srcRelations, ingOp>>
timeVars == <<clock, tOp>>
itemVars == <<actionItems, iOp>>
bootVars == <<settings, page, engines, boot, bOp>>
pipeVars == <<svc, backend, pipe, task, wire, got, pOp>>
uiVars == <<ui, calls, be, uOp>>
detailVars == <<store, highlights, detail, loads, dOp>>
overlayVars == <<ov, oOp>>
turnVars == <<smart, elapsed, emitted, stOp>>

vars == <<pc, kbWriter, kbReaders, kbSome, unit, unitNo, found,
          nodeRows, mentions, storedRows, entRows, relRows, observed,
          sources, chunks, lastOp, prevOp, meetings, rows, mOp,
          graph, askOp, segs, ingested, sOp, srcEntities, srcRelations, ingOp,
          clock, tOp, actionItems, iOp, current_meeting_id,
          settings, page, engines, boot, bOp,
          svc, backend, pipe, task, wire, got, pOp,
          ui, calls, be, uOp,
          store, highlights, detail, loads, dOp,
          ov, oOp,
          smart, elapsed, emitted, stOp>>

\* what the actions of one part of the model leave alone
otherThanConc == <<knowVars, meetVars, askVars, segVars, ingVars, timeVars,
                   itemVars, bootVars, pipeVars, uiVars, detailVars,
                   overlayVars, turnVars>>
otherThanKnow == <<concVars, meetVars, askVars, segVars, ingVars, timeVars,
                   itemVars, bootVars, pipeVars, uiVars, detailVars,
                   overlayVars, turnVars>>
otherThanMeet == <<concVars, knowVars, askVars, segVars, ingVars, timeVars,
                   itemVars, bootVars, pipeVars, uiVars, detailVars,
                   overlayVars, turnVars>>
otherThanAsk == <<concVars, knowVars, meetVars, segVars, ingVars, timeVars,
                  itemVars, bootVars, pipeVars, uiVars, detailVars,
                  overlayVars, turnVars>>
otherThanSeg == <<concVars, knowVars, meetVars, askVars, ingVars, timeVars,
                  itemVars, bootVars, pipeVars, uiVars, detailVars,
                  overlayVars, turnVars>>
otherThanIng == <<concVars, meetVars, askVars, segVars, timeVars, itemVars,
                  bootVars, pipeVars, uiVars, detailVars, overlayVars,
                  turnVars>>
otherThanTime == <<concVars, knowVars, meetVars, askVars, segVars, ingVars,
                   itemVars, bootVars, pipeVars, uiVars, detailVars,
                   overlayVars, turnVars>>
otherThanItems == <<concVars, knowVars, meetVars, askVars, segVars, ingVars,
                    timeVars, bootVars, pipeVars, uiVars, detailVars,
                    overlayVars, turnVars>>
otherThanBoot == <<concVars, knowVars, meetVars, askVars, segVars, ingVars,
                   timeVars, itemVars, pipeVars, uiVars, detailVars,
                   overlayVars, turnVars>>
otherThanPipe == <<concVars, knowVars, meetVars, askVars, segVars, ingVars,
                   timeVars, itemVars, bootVars, uiVars, detailVars,
                   overlayVars, turnVars>>
otherThanUi == <<concVars, knowVars, meetVars, askVars, segVars, ingVars,
                 timeVars, itemVars, bootVars, pipeVars, detailVars,
                 overlayVars, turnVars>>
otherThanDetail == <<concVars, knowVars, meetVars, askVars, segVars, ingVars,
                     timeVars, itemVars, bootVars, pipeVars, uiVars,
                     overlayVars, turnVars>>
otherThanOverlay == <<concVars, knowVars, meetVars, askVars, segVars,
                      ingVars, timeVars, itemVars, bootVars, pipeVars,
                      uiVars, detailVars, turnVars>>
otherThanTurn == <<concVars, knowVars, meetVars, askVars, segVars, ingVars,
                   timeVars, itemVars, bootVars, pipeVars, uiVars,
                   detailVars, overlayVars>>

\* -------------------------------------------------------------- processes
Ingesters == {"asr", "upload"}
Queriers == {"ask"}
Procs == {"init"} \cup Ingesters \cup Queriers

Names == {"john", "budget"}

NoUnit == [name |-> None, hasRel |-> FALSE, id |-> <<None, 0, FALSE>>]

\* steps of an ingestion during which model inference runs
InferenceSteps == {"embed", "extract", "q_embed"}

\* steps of an ingestion between taking and dropping the guard
IngestSteps == {"embed", "store", "extract", "lookup", "upsert", "rels", "release"}

\* The guard the ingestion producers take on the kb handle: kb.read().await
IngestGuardModeExclusive == "write"
IngestGuardMode == "read"

\* The guard ask() takes on the kb handle: kb.read().await
QueryGuardMode == "read"

\* tokio RwLock: a read guard needs no writer, a write guard needs nobody
\* (tokio's RwLock is write-preferring: a queued writer holds later readers back)
WriterQueued == pc["init"] = "i_lock"

CanAcquire(mode) ==
  IF mode = "read" THEN kbWriter = None /\ ~WriterQueued
  ELSE kbWriter = None /\ kbReaders = {}

HoldsGuard(p) == p \in kbReaders \/ kbWriter = p

ConcIdle ==
  /\ pc = [p \in Procs |-> "idle"]
  /\ kbWriter = None
  /\ kbReaders = {}
  /\ kbSome = FALSE
  /\ unit = [p \in Ingesters |-> NoUnit]
  /\ unitNo = [p \in Ingesters |-> 0]
  /\ found = [p \in Ingesters |-> FALSE]
  /\ nodeRows = [n \in Names |-> 0]
  /\ mentions = [n \in Names |-> 0]
  /\ storedRows = [p \in Ingesters |-> 0]
  /\ entRows = {}
  /\ relRows = {}
  /\ observed = [ents |-> {}, rels |-> {}]

\* ------------------------------------------------- initialize_knowledge_base
\* The command opens SurrealDB and stores it in the handle under the write guard.
InitStart ==
  /\ pc["init"] = "idle"
  /\ pc' = [pc EXCEPT !["init"] = "i_lock"]
  /\ UNCHANGED <<kbWriter, kbReaders, kbSome, unit, unitNo, found, nodeRows,
                 mentions, storedRows, entRows, relRows, observed>>
  /\ UNCHANGED otherThanConc

InitAcquire ==
  /\ pc["init"] = "i_lock"
  /\ CanAcquire("write")
  /\ kbWriter' = "init"
  /\ pc' = [pc EXCEPT !["init"] = "i_open"]
  /\ UNCHANGED <<kbReaders, kbSome, unit, unitNo, found, nodeRows, mentions,
                 storedRows, entRows, relRows, observed>>
  /\ UNCHANGED otherThanConc

InitOpen ==
  /\ pc["init"] = "i_open"
  /\ kbSome' = TRUE
  /\ kbWriter' = None
  /\ pc' = [pc EXCEPT !["init"] = "done"]
  /\ UNCHANGED <<kbReaders, unit, unitNo, found, nodeRows, mentions,
                 storedRows, entRows, relRows, observed>>
  /\ UNCHANGED otherThanConc

\* ------------------------------------------------------- ingestion producers
\* "asr": the ASR processing thread saving a final transcript (add_segment).
\* "upload": the upload_document command (add_knowledge_source), one sampled
\* paragraph per unit.

\* A final, non-empty transcription with an active meeting (or a paragraph of
\* more than 50 chars) arrives: the text names one entity, with or without a
\* relationship.
IngestStart(p) ==
  /\ pc[p] = "idle"
  /\ unitNo[p] < MaxUnits
  /\ \E n \in Names, r \in BOOLEAN :
       unit' = [unit EXCEPT ![p] = [name |-> n, hasRel |-> r,
                                    id |-> <<p, unitNo[p] + 1, r>>]]
  /\ pc' = [pc EXCEPT ![p] = "lock"]
  /\ UNCHANGED <<kbWriter, kbReaders, kbSome, unitNo, found, nodeRows,
                 mentions, storedRows, entRows, relRows, observed>>
  /\ UNCHANGED otherThanConc

\* let kb_guard = kb.read().await; if let Some(ref kb) = *kb_guard { ... }
IngestAcquire(p) ==
  /\ pc[p] = "lock"
  /\ CanAcquire(IngestGuardMode)
  /\ IF IngestGuardMode = "read"
       THEN kbReaders' = kbReaders \cup {p} /\ UNCHANGED kbWriter
       ELSE kbWriter' = p /\ UNCHANGED kbReaders
  /\ pc' = [pc EXCEPT ![p] = IF kbSome THEN "embed" ELSE "release"]
  /\ UNCHANGED <<kbSome, unit, unitNo, found, nodeRows, mentions,
                 storedRows, entRows, relRows, observed>>
  /\ UNCHANGED otherThanConc

\* embedding_engine.embed(text): inference, inside add_segment /
\* add_knowledge_source, hence inside the guard's scope.
IngestEmbedOk(p) ==
  /\ pc[p] = "embed"
  /\ pc' = [pc EXCEPT ![p] = "store"]
  /\ UNCHANGED <<kbWriter, kbReaders, kbSome, unit, unitNo, found, nodeRows,
                 mentions, storedRows, entRows, relRows, observed>>
  /\ UNCHANGED otherThanConc

\* The embedding fails: add_knowledge_source returns the error (embed(..)?).
IngestEmbedFail(p) ==
  /\ pc[p] = "embed"
  /\ p = "upload"
  /\ pc' = [pc EXCEPT ![p] = "release"]
  /\ UNCHANGED <<kbWriter, kbReaders, kbSome, unit, unitNo, found, nodeRows,
                 mentions, storedRows, entRows, relRows, observed>>
  /\ UNCHANGED otherThanConc

\* db.create("segment") / db.create("knowledge_chunk")
IngestStore(p) ==
  /\ pc[p] = "store"
  /\ storedRows' = [storedRows EXCEPT ![p] = @ + 1]
  /\ pc' = [pc EXCEPT ![p] = "extract"]
  /\ UNCHANGED <<kbWriter, kbReaders, kbSome, unit, unitNo, found, nodeRows,
                 mentions, entRows, relRows, observed>>
  /\ UNCHANGED otherThanConc

\* entity_engine.extract_with_relations(text): inference.
IngestExtractOk(p) ==
  /\ pc[p] = "extract"
  /\ pc' = [pc EXCEPT ![p] = "lookup"]
  /\ UNCHANGED <<kbWriter, kbReaders, kbSome, unit, unitNo, found, nodeRows,
                 mentions, storedRows, entRows, relRows, observed>>
  /\ UNCHANGED otherThanConc

\* Err(e) => println!("Entity extraction failed"): the unit is skipped.
IngestExtractFail(p) ==
  /\ pc[p] = "extract"
  /\ pc' = [pc EXCEPT ![p] = "release"]
  /\ UNCHANGED <<kbWriter, kbReaders, kbSome, unit, unitNo, found, nodeRows,
                 mentions, storedRows, entRows, relRows, observed>>
  /\ UNCHANGED otherThanConc

\* process_entities: look the Person/Topic up by normalized name ...
UpsertLookup(p) ==
  /\ pc[p] = "lookup"
  /\ found' = [found EXCEPT ![p] = nodeRows[unit[p].name] > 0]
  /\ pc' = [pc EXCEPT ![p] = "upsert"]
  /\ UNCHANGED <<kbWriter, kbReaders, kbSome, unit, unitNo, nodeRows,
                 mentions, storedRows, entRows, relRows, observed>>
  /\ UNCHANGED otherThanConc

\* ... create it if absent, else bump mention_count / last_seen.
UpsertWrite(p) ==
  /\ pc[p] = "upsert"
  /\ IF found[p]
       THEN /\ mentions' = [mentions EXCEPT ![unit[p].name] = @ + 1]
            /\ UNCHANGED nodeRows
       ELSE /\ nodeRows' = [nodeRows EXCEPT ![unit[p].name] = @ + 1]
            /\ UNCHANGED mentions
  /\ entRows' = entRows \cup {unit[p].id}
  /\ pc' = [pc EXCEPT ![p] = IF unit[p].hasRel THEN "rels" ELSE "release"]
  /\ UNCHANGED <<kbWriter, kbReaders, kbSome, unit, unitNo, found,
                 storedRows, relRows, observed>>
  /\ UNCHANGED otherThanConc

\* process_entities_for_source(..).await.ok(): a failed write is dropped and
\* the relationships are processed all the same.
UpsertFail(p) ==
  /\ pc[p] = "upsert"
  /\ p = "upload"
  /\ pc' = [pc EXCEPT ![p] = IF unit[p].hasRel THEN "rels" ELSE "release"]
  /\ UNCHANGED <<kbWriter, kbReaders, kbSome, unit, unitNo, found, nodeRows,
                 mentions, storedRows, entRows, relRows, observed>>
  /\ UNCHANGED otherThanConc

\* process_relationships: one entity_relation row per relationship, tagged
\* with the meeting_id / knowledge_source_id.
RelsWrite(p) ==
  /\ pc[p] = "rels"
  /\ relRows' = relRows \cup {unit[p].id}
  /\ pc' = [pc EXCEPT ![p] = "release"]
  /\ UNCHANGED <<kbWriter, kbReaders, kbSome, unit, unitNo, found, nodeRows,
                 mentions, storedRows, entRows, observed>>
  /\ UNCHANGED otherThanConc

\* The entity_relation row written for a unit: process_relationships (ASR
\* thread) tags it with the meeting_id, process_relationships_for_source
\* (upload) with the knowledge_source_id; both fields are option<string>.
EntityRelationMeetingIdOnly(id) ==
  [unit |-> id, meeting_id |-> IF id[1] = "asr" THEN "m1" ELSE None,
   knowledge_source_id |-> None]
EntityRelation(id) ==
  [unit |-> id, meeting_id |-> IF id[1] = "asr" THEN "m1" ELSE None,
   knowledge_source_id |-> IF id[1] = "upload" THEN "s1" ELSE None]

\* the entity_relation table
EntityRelations == {EntityRelation(id) : id \in relRows}

\* process_relationships_for_source(..).await.ok(): a failed write is dropped.
RelsFail(p) ==
  /\ pc[p] = "rels"
  /\ p = "upload"
  /\ pc' = [pc EXCEPT ![p] = "release"]
  /\ UNCHANGED <<kbWriter, kbReaders, kbSome, unit, unitNo, found, nodeRows,
                 mentions, storedRows, entRows, relRows, observed>>
  /\ UNCHANGED otherThanConc

\* The guard goes out of scope at the end of the block.
IngestRelease(p) ==
  /\ pc[p] = "release"
  /\ kbReaders' = kbReaders \ {p}
  /\ kbWriter' = IF kbWriter = p THEN None ELSE kbWriter
  /\ unitNo' = [unitNo EXCEPT ![p] = @ + 1]
  /\ unit' = [unit EXCEPT ![p] = NoUnit]
  /\ found' = [found EXCEPT ![p] = FALSE]
  /\ pc' = [pc EXCEPT ![p] = "idle"]
  /\ UNCHANGED <<kbSome, nodeRows, mentions, storedRows,
                 entRows, relRows, observed>>
  /\ UNCHANGED otherThanConc

\* ---------------------------------------------------------------- ask()
QueryStart(q) ==
  /\ pc[q] = "idle"
  /\ pc' = [pc EXCEPT ![q] = "q_lock"]
  /\ UNCHANGED <<kbWriter, kbReaders, kbSome, unit, unitNo, found, nodeRows,
                 mentions, storedRows, entRows, relRows, observed>>
  /\ UNCHANGED otherThanConc

\* let kb_guard = kb.read().await;
QueryAcquire(q) ==
  /\ pc[q] = "q_lock"
  /\ CanAcquire(QueryGuardMode)
  /\ kbReaders' = kbReaders \cup {q}
  /\ pc' = [pc EXCEPT ![q] = IF kbSome THEN "q_embed" ELSE "q_release"]
  /\ UNCHANGED <<kbWriter, kbSome, unit, unitNo, found, nodeRows, mentions,
                 storedRows, entRows, relRows, observed>>
  /\ UNCHANGED otherThanConc

\* search_knowledge embeds the question (inference) under the guard; a
\* failure gives unwrap_or_default(), the empty result.
QueryEmbed(q) ==
  /\ pc[q] = "q_embed"
  /\ \E ok \in BOOLEAN :
       pc' = [pc EXCEPT ![q] = IF ok THEN "q_read" ELSE "q_release"]
  /\ UNCHANGED <<kbWriter, kbReaders, kbSome, unit, unitNo, found, nodeRows,
                 mentions, storedRows, entRows, relRows, observed>>
  /\ UNCHANGED otherThanConc

\* The query reads the store.
QueryRead(q) ==
  /\ pc[q] = "q_read"
  /\ observed' = [ents |-> entRows, rels |-> relRows]
  /\ pc' = [pc EXCEPT ![q] = "q_release"]
  /\ UNCHANGED <<kbWriter, kbReaders, kbSome, unit, unitNo, found, nodeRows,
                 mentions, storedRows, entRows, relRows>>
  /\ UNCHANGED otherThanConc

\* End of the block: the guard is dropped before the LLM is called.
QueryRelease(q) ==
  /\ pc[q] = "q_release"
  /\ kbReaders' = kbReaders \ {q}
  /\ pc' = [pc EXCEPT ![q] = "idle"]
  /\ UNCHANGED <<kbWriter, kbSome, unit, unitNo, found, nodeRows, mentions,
                 storedRows, entRows, relRows, observed>>
  /\ UNCHANGED otherThanConc

NextConc ==
  \/ InitStart
  \/ InitAcquire
  \/ InitOpen
  \/ \E p \in Ingesters : IngestStart(p)
  \/ \E p \in Ingesters : IngestAcquire(p)
  \/ \E p \in Ingesters : IngestEmbedOk(p)
  \/ \E p \in Ingesters : IngestEmbedFail(p)
  \/ \E p \in Ingesters : IngestStore(p)
  \/ \E p \in Ingesters : IngestExtractOk(p)
  \/ \E p \in Ingesters : IngestExtractFail(p)
  \/ \E p \in Ingesters : UpsertLookup(p)
  \/ \E p \in Ingesters : UpsertWrite(p)
  \/ \E p \in Ingesters : UpsertFail(p)
  \/ \E p \in Ingesters : RelsWrite(p)
  \/ \E p \in Ingesters : RelsFail(p)
  \/ \E p \in Ingesters : IngestRelease(p)
  \/ \E q \in Queriers : QueryStart(q)
  \/ \E q \in Queriers : QueryAcquire(q)
  \/ \E q \in Queriers : QueryEmbed(q)
  \/ \E q \in Queriers : QueryRead(q)
  \/ \E q \in Queriers : QueryRelease(q)

\* ==========================================================================
\* Knowledge store: knowledge_source and knowledge_chunk
\* ==========================================================================
MaxChunks == 2         \* knowledge_chunk rows the store may hold
MaxLimit == 2          \* largest limit passed to search_knowledge

SrcIds == {"s1", "s2"}
Queries == {1, 2}

\* A source_id is a string; here the sequence of its parts: the table prefix
\* of a full Thing string, then the id.
Prefix == "knowledge_source:"
Bare(s) == <<s>>
Full(s) == <<Prefix, s>>

ChunkIds == 1..MaxChunks
ChunkRecords == [cid : ChunkIds, source_id : {Bare(s) : s \in SrcIds} \cup {Full(s) : s \in SrcIds}]

NoOp == [op |-> "none", result |-> "ok", value |-> 0, deleted |-> {},
         results |-> <<>>, limit |-> 0]
NoPrev == [op |-> "none", result |-> "ok", value |-> 0]

Prev(o) == [op |-> o.op, result |-> o.result, value |-> o.value]

\* source_id.strip_prefix("knowledge_source:").unwrap_or(source_id)
IdPartNoStrip(source_id) == source_id
IdPart(source_id) ==
  IF Len(source_id) > 0 /\ Head(source_id) = Prefix
    THEN Tail(source_id)
    ELSE source_id

NoSource == [some |-> FALSE, title |-> <<>>, url |-> <<>>]

\* get_knowledge_source: the row of knowledge_source with that id part
GetKnowledgeSource(source_id) ==
  LET id_part == IdPart(source_id) IN
  IF \E s \in sources : id_part = <<s>>
    THEN [some |-> TRUE, title |-> <<"title">> \o id_part, url |-> <<"url">> \o id_part]
    ELSE NoSource

\* A set as a sequence, in the order the store returns the rows.
RECURSIVE SetToSeq(_)
SetToSeq(S) ==
  IF S = {} THEN <<>>
  ELSE LET x == CHOOSE y \in S : TRUE IN <<x>> \o SetToSeq(S \ {x})

\* SELECT source_id FROM knowledge_chunk GROUP BY source_id
ChunkSourceIds == SetToSeq({c.source_id : c \in chunks})

\* The loop of cleanup_orphaned_chunks over the source ids. failAt = k > 0: the
\* k-th store call of the loop fails and the error is returned (?).
RECURSIVE CleanupLoopCountsAll(_, _, _, _)
CleanupLoopCountsAll(ids, failAt, cs, deleted_count) ==
  IF ids = <<>> THEN [result |-> "ok", value |-> deleted_count, chunks |-> cs]
  ELSE IF failAt = 1 THEN [result |-> "err", value |-> 0, chunks |-> cs]
  ELSE IF ~GetKnowledgeSource(Head(ids)).some
    THEN CleanupLoopCountsAll(Tail(ids), failAt - 1,
                              {c \in cs : c.source_id # Head(ids)}, deleted_count + 1)
    ELSE CleanupLoopCountsAll(Tail(ids), failAt - 1, cs, deleted_count + 1)

RECURSIVE CleanupLoop(_, _, _, _)
CleanupLoop(ids, failAt, cs, deleted_count) ==
  IF ids = <<>> THEN [result |-> "ok", value |-> deleted_count, chunks |-> cs]
  ELSE IF failAt = 1 THEN [result |-> "err", value |-> 0, chunks |-> cs]
  ELSE IF ~GetKnowledgeSource(Head(ids)).some
    THEN CleanupLoop(Tail(ids), failAt - 1,
                     {c \in cs : c.source_id # Head(ids)}, deleted_count + 1)
    ELSE CleanupLoop(Tail(ids), failAt - 1, cs, deleted_count)

\* cleanup_orphaned_chunks()
CleanupOrphanedChunks ==
  \E failAt \in 0..Cardinality({c.source_id : c \in chunks}) :
    LET r == CleanupLoop(ChunkSourceIds, failAt, chunks, 0) IN
    /\ chunks' = r.chunks
    /\ lastOp' = [op |-> "cleanup", result |-> r.result, value |-> r.value,
                  deleted |-> chunks \ r.chunks, results |-> <<>>, limit |-> 0]
    /\ prevOp' = Prev(lastOp)
    /\ UNCHANGED sources
    /\ UNCHANGED otherThanKnow

\* vector::similarity::cosine(embedding, $embedding) of a chunk for a query,
\* as a rank: the embedding model is outside the program.
Similarity(q, c) == (c.cid * q + q) % 3

\* ORDER BY similarity DESC (rows of equal similarity in row order)
Before(q, a, b) ==
  \/ Similarity(q, a) > Similarity(q, b)
  \/ Similarity(q, a) = Similarity(q, b) /\ a.cid < b.cid

RECURSIVE OrderBySimilarity(_, _)
OrderBySimilarity(q, S) ==
  IF S = {} THEN <<>>
  ELSE LET top == CHOOSE a \in S : \A b \in S \ {a} : Before(q, a, b)
       IN <<top>> \o OrderBySimilarity(q, S \ {top})

\* LIMIT $limit
Limit(seq, limit) == SubSeq(seq, 1, IF Len(seq) < limit THEN Len(seq) ELSE limit)

Fallback(c) == <<"Source">> \o c.source_id

\* One hit with its source title and url; errs holds the hit, if any, whose
\* get_knowledge_source call fails.
SearchResult(q, c, errs) ==
  LET src == GetKnowledgeSource(c.source_id) IN
  IF c.cid \in errs \/ ~src.some
    THEN [chunk |-> c, source_title |-> Fallback(c), source_url |-> <<>>,
          similarity |-> Similarity(q, c)]
    ELSE [chunk |-> c, source_title |-> src.title, source_url |-> src.url,
          similarity |-> Similarity(q, c)]

\* The loop of search_knowledge over the chunks found.
RECURSIVE ResolveHitsSkipMissing(_, _, _)
ResolveHitsSkipMissing(q, hits, errs) ==
  IF hits = <<>> THEN <<>>
  ELSE IF Head(hits).cid \in errs \/ ~GetKnowledgeSource(Head(hits).source_id).some
    THEN ResolveHitsSkipMissing(q, Tail(hits), errs)
    ELSE <<SearchResult(q, Head(hits), errs)>> \o ResolveHitsSkipMissing(q, Tail(hits), errs)

RECURSIVE ResolveHits(_, _, _)
ResolveHits(q, hits, errs) ==
  IF hits = <<>> THEN <<>>
  ELSE <<SearchResult(q, Head(hits), errs)>> \o ResolveHits(q, Tail(hits), errs)

\* search_knowledge(query, limit, None)
SearchKnowledge ==
  \E q \in Queries, limit \in 0..MaxLimit, embedOk \in BOOLEAN,
     errs \in {{}} \cup {{c.cid} : c \in chunks} :
    /\ embedOk \/ errs = {}
    /\ lastOp' =
         IF embedOk
           THEN [op |-> "search", result |-> "ok", value |-> q, deleted |-> {},
                 results |-> ResolveHits(q, Limit(OrderBySimilarity(q, chunks), limit), errs),
                 limit |-> limit]
           ELSE [op |-> "search", result |-> "err", value |-> q, deleted |-> {},
                 results |-> <<>>, limit |-> limit]
    /\ prevOp' = Prev(lastOp)
    /\ UNCHANGED <<sources, chunks>>
    /\ UNCHANGED otherThanKnow

FreeChunkIds == ChunkIds \ {c.cid : c \in chunks}

\* add_knowledge_source: the source row, then one knowledge_chunk row per
\* chunk, each holding the full Thing string of the source; an embedding
\* failure returns the error after the rows written so far.
AddKnowledgeSource ==
  \E s \in SrcIds \ sources, ids \in SUBSET FreeChunkIds, res \in {"ok", "err"} :
    /\ sources' = sources \cup {s}
    /\ chunks' = chunks \cup {[cid |-> i, source_id |-> Full(s)] : i \in ids}
    /\ lastOp' = [op |-> "add_source", result |-> res, value |-> Cardinality(ids),
                  deleted |-> {}, results |-> <<>>, limit |-> 0]
    /\ prevOp' = Prev(lastOp)
    /\ UNCHANGED otherThanKnow

\* delete_knowledge_source(source_id), given the bare id or the Thing string
DeleteKnowledgeSource ==
  \E source_id \in {Bare(s) : s \in SrcIds} \cup {Full(s) : s \in SrcIds},
     failAt \in 0..2 :
    LET full_source_id == IF Len(source_id) > 0 /\ Head(source_id) = Prefix
                            THEN source_id ELSE <<Prefix>> \o source_id
        id_part == IdPart(source_id)
        gone == IF failAt = 1 THEN {}
                ELSE {c \in chunks : c.source_id = full_source_id \/ c.source_id = id_part}
    IN
    /\ chunks' = chunks \ gone
    /\ sources' = IF failAt = 0 THEN {x \in sources : <<x>> # id_part} ELSE sources
    /\ lastOp' = [op |-> "delete_source", result |-> IF failAt = 0 THEN "ok" ELSE "err",
                  value |-> 0, deleted |-> gone, results |-> <<>>, limit |-> 0]
    /\ prevOp' = Prev(lastOp)
    /\ UNCHANGED otherThanKnow

\* The store as the application finds it: rows of earlier sessions, among
\* them chunks of sources deleted before delete_knowledge_source handled
\* both id formats.
KnowIdle ==
  /\ sources = {}
  /\ chunks = {}
  /\ lastOp = NoOp
  /\ prevOp = NoPrev

InitKnow ==
  /\ sources \in SUBSET SrcIds
  /\ chunks \in {cs \in SUBSET ChunkRecords :
                   \A a, b \in cs : a.cid = b.cid => a = b}
  /\ lastOp = NoOp
  /\ prevOp = NoPrev

NextKnow ==
  \/ CleanupOrphanedChunks
  \/ SearchKnowledge
  \/ AddKnowledgeSource
  \/ DeleteKnowledgeSource

\* ==========================================================================
\* Meetings: meeting, segment, action_item, decision, entity_relation,
\* meeting_knowledge and the graph edges mentioned_in / discussed_in
\* ==========================================================================
MaxSegs == 2           \* segments ingested over all meetings

MeetingIds == {"m1", "m2"}

\* what add_segment derives from a segment with entities
EnrichTables == {"action_item", "decision", "entity_relation",
                 "mentioned_in", "discussed_in"}

NoMeetOp == [op |-> "none", arg |-> None, result |-> "ok", removed |-> 0,
             back |-> FALSE, existed |-> FALSE]

Row(t, m, n) == [table |-> t, meeting_id |-> m, n |-> n]

\* start_meeting(title, participants): creates the meeting row
StartMeeting ==
  \E m \in MeetingIds \ meetings :
    /\ meetings' = meetings \cup {m}
    /\ mOp' = [op |-> "start_meeting", arg |-> m, result |-> "ok",
               removed |-> 0, back |-> FALSE, existed |-> FALSE]
    /\ UNCHANGED rows
    /\ UNCHANGED otherThanMeet

\* add_segment(meeting_id, ..): the segment row and, when the text names
\* entities, the rows and edges derived from it
AddSegment ==
  \E m \in meetings, enrich \in BOOLEAN :
    LET used == {r.n : r \in {x \in rows : x.table # "meeting_knowledge"}}
        free == (1..MaxSegs) \ used
    IN
    /\ free # {}
    /\ LET n == CHOOSE i \in free : \A j \in free : i <= j IN
       rows' = rows \cup {Row("segment", m, n)}
                    \cup (IF enrich THEN {Row(t, m, n) : t \in EnrichTables} ELSE {})
    /\ mOp' = [op |-> "add_segment", arg |-> m, result |-> "ok",
               removed |-> 0, back |-> FALSE, existed |-> FALSE]
    /\ UNCHANGED meetings
    /\ UNCHANGED otherThanMeet

\* link_knowledge_to_meeting(meeting_id, source_id, assigned_by)
LinkKnowledgeToMeeting ==
  \E m \in meetings :
    /\ rows' = rows \cup {Row("meeting_knowledge", m, 1)}
    /\ mOp' = [op |-> "link_knowledge", arg |-> m, result |-> "ok",
               removed |-> 0, back |-> FALSE, existed |-> FALSE]
    /\ UNCHANGED meetings
    /\ UNCHANGED otherThanMeet

\* per-meeting accessors, over the meeting rows ms and the child rows rs
RowsOf(rs, t, m) == {r \in rs : r.table = t /\ r.meeting_id = m}
GetMeeting(ms, m) == IF m \in ms THEN m ELSE None
GetMeetingSegments(rs, m) == RowsOf(rs, "segment", m)
GetMeetingActionItems(rs, m) == RowsOf(rs, "action_item", m)
GetMeetingDecisions(rs, m) == RowsOf(rs, "decision", m)
GetMeetingTopics(rs, m) == RowsOf(rs, "discussed_in", m)
GetMeetingPeople(rs, m) == RowsOf(rs, "mentioned_in", m)
GetMeetingKnowledge(rs, m) == RowsOf(rs, "meeting_knowledge", m)

\* DELETE <table> WHERE meeting_id = ?
DeleteWhereAnyMeeting(t, m, rs) == {r \in rs : r.table # t}
DeleteWhere(t, m, rs) == {r \in rs : ~(r.table = t /\ r.meeting_id = m)}

\* the statements of KnowledgeBase::delete_meeting, in order
DeleteStepsNoEdges == <<"segment", "action_item", "decision", "entity_relation",
                        "meeting_knowledge", "meeting">>
DeleteSteps == <<"segment", "action_item", "decision", "entity_relation",
                 "meeting_knowledge", "mentioned_in", "discussed_in", "meeting">>

\* Runs the statements from the i-th on; failAt = k > 0: the k-th statement
\* fails and its error is returned.
RECURSIVE DeleteCascade(_, _, _, _, _)
DeleteCascade(i, failAt, m, rs, ms) ==
  IF i > Len(DeleteSteps) THEN [result |-> "ok", rows |-> rs, meetings |-> ms]
  ELSE IF failAt = i THEN [result |-> "err", rows |-> rs, meetings |-> ms]
  ELSE IF DeleteSteps[i] = "meeting"
    THEN DeleteCascade(i + 1, failAt, m, rs, ms \ {m})
    ELSE DeleteCascade(i + 1, failAt, m, DeleteWhere(DeleteSteps[i], m, rs), ms)

\* deleteMeeting() of the meeting page: invoke("delete_meeting"), then
\* onBack() on success, isDeleting = false on error. The id is the one the
\* page was opened with, whether or not the meeting is still in the store.
DeleteMeeting ==
  \E m \in MeetingIds, failAt \in 0..Len(DeleteSteps) :
    LET r == DeleteCascade(1, failAt, m, rows, meetings) IN
    /\ rows' = r.rows
    /\ meetings' = r.meetings
    /\ mOp' = [op |-> "delete_meeting", arg |-> m, result |-> r.result,
               removed |-> Cardinality(rows \ r.rows), back |-> (r.result = "ok"),
               existed |-> m \in meetings]
    /\ UNCHANGED otherThanMeet

MeetIdle ==
  /\ meetings = {}
  /\ rows = {}
  /\ mOp = NoMeetOp

NextMeet ==
  \/ StartMeeting
  \/ AddSegment
  \/ LinkKnowledgeToMeeting
  \/ DeleteMeeting

\* ==========================================================================
\* ask(): the Graph-RAG query, the vector-search fallback and the early return
\* ==========================================================================
MaxDocs == 1           \* knowledge chunks that match a question

\* A question, by what the collaborators make of it: the entities GLiNER
\* extracts from it and whether it holds a temporal phrase.
Questions == [entities : SUBSET Names, temporal : BOOLEAN]

\* the sections of step 3 of the query flow
GraphSections == {"meetings", "people", "topics"}

\* the calls of graph_rag_query that can fail
QuerySteps == {"extract", "items", "decisions", "vector"} \cup GraphSections

EmptyBundle == [temporal |-> FALSE, entities |-> {}, meetings |-> {},
                people |-> {}, topics |-> {}, items |-> 0, decisions |-> {},
                hits |-> 0]

NoAskOp == [op |-> "none", question |-> [entities |-> {}, temporal |-> FALSE],
            fails |-> {}, ok |-> TRUE, bundle |-> EmptyBundle,
            context |-> <<>>, result |-> "ok", llmCalled |-> FALSE,
            answer |-> "none"]

EmptyGraph == [meetings |-> {}, people |-> {}, topics |-> {}, items |-> 0,
               decisions |-> {}, docs |-> 0]

\* add_segment of a text that names n: the meeting references n, and n is
\* upserted as a Person or a Topic. inWindow: the meeting lies in the window
\* of the temporal phrases asked about.
EntityType(n) == IF n = "john" THEN "person" ELSE "topic"

MentionInMeeting ==
  \E n \in Names, inWindow \in BOOLEAN :
    /\ graph' = [graph EXCEPT
                   !.meetings = @ \cup {[about |-> n, inWindow |-> inWindow]},
                   !.people = IF EntityType(n) = "person" THEN @ \cup {n} ELSE @,
                   !.topics = IF EntityType(n) = "topic" THEN @ \cup {n} ELSE @]
    /\ askOp' = [NoAskOp EXCEPT !.op = "add_segment"]
    /\ UNCHANGED otherThanAsk

\* add_action_item(): an open action item
AddActionItem ==
  /\ graph.items = 0
  /\ graph' = [graph EXCEPT !.items = 1]
  /\ askOp' = [NoAskOp EXCEPT !.op = "add_action_item"]
  /\ UNCHANGED otherThanAsk

\* add_decision(): a decision of meeting m (at most one per meeting here)
AddDecision ==
  \E m \in graph.meetings \ graph.decisions :
  /\ graph' = [graph EXCEPT !.decisions = @ \cup {m}]
  /\ askOp' = [NoAskOp EXCEPT !.op = "add_decision"]
  /\ UNCHANGED otherThanAsk

\* a knowledge chunk lands in the store
AddChunk ==
  /\ graph.docs < MaxDocs
  /\ graph' = [graph EXCEPT !.docs = @ + 1]
  /\ askOp' = [NoAskOp EXCEPT !.op = "add_chunk"]
  /\ UNCHANGED otherThanAsk

\* 1. Extract entities from query (GLiNER): zero entities is a success, a
\* failing model (e.g. during model download) is an error.
ExtractEntitiesNoneIsError(q, fails) ==
  [ok |-> "extract" \notin fails /\ q.entities # {}, entities |-> q.entities]
ExtractEntities(q, fails) ==
  [ok |-> "extract" \notin fails, entities |-> q.entities]

\* a section of step 3 is computed best-effort: its failure leaves it empty
FailFast(section, fails, value) ==
  IF fails \cap GraphSections # {} THEN {} ELSE value
BestEffort(section, fails, value) ==
  IF section \in fails THEN {} ELSE value

\* meetings that reference an extracted entity, filtered by time if temporal
RelatedMeetings(g, entities, temporal) ==
  {m \in g.meetings : m.about \in entities /\ (temporal => m.inWindow)}

\* Person nodes linked to an extracted entity or to a related meeting
RelatedPeople(g, entities, related_meetings) ==
  {n \in g.people : n \in entities \/ \E m \in related_meetings : m.about = n}

\* get_topic_context(): topic WHERE name = <extracted entity>
RelatedTopics(g, entities) == {n \in g.topics : n \in entities}

\* 5. Get recent decisions: those of the related meetings if any was found,
\* of all meetings otherwise (a decision is named by its meeting; the cap on
\* their number is above what the store holds here)
RecentDecisionsOfAllMeetings(g, related_meetings) == g.decisions
RecentDecisions(g, related_meetings) ==
  IF related_meetings # {} THEN g.decisions \cap related_meetings
  ELSE g.decisions

\* graph_rag_query(question, 5) over the store g
GraphRagQuery(g, q, fails) ==
  LET ex == ExtractEntities(q, fails) IN
  IF ~ex.ok \/ fails \cap {"items", "decisions", "vector"} # {}
    THEN [ok |-> FALSE, bundle |-> EmptyBundle]
    ELSE
      LET related_meetings == BestEffort("meetings", fails,
                                RelatedMeetings(g, ex.entities, q.temporal))
          related_people == BestEffort("people", fails,
                              RelatedPeople(g, ex.entities, related_meetings))
          related_topics == BestEffort("topics", fails,
                                       RelatedTopics(g, ex.entities))
      IN [ok |-> TRUE,
          bundle |-> [temporal |-> q.temporal, entities |-> ex.entities,
                      meetings |-> related_meetings, people |-> related_people,
                      topics |-> related_topics, items |-> g.items,
                      decisions |-> RecentDecisions(g, related_meetings),
                      hits |-> g.docs]]

\* The context document: the non-empty sections, in the fixed order.
SectionWithPlaceholder(name, present) == <<name>>
Section(name, present) == IF present THEN <<name>> ELSE <<>>

Assemble(b) ==
  Section("temporal", b.temporal) \o Section("entities", b.entities # {})
  \o Section("meetings", b.meetings # {}) \o Section("people", b.people # {})
  \o Section("topics", b.topics # {}) \o Section("items", b.items > 0)
  \o Section("decisions", b.decisions # {}) \o Section("knowledge", b.hits > 0)

\* if context.is_empty() { return Ok("I couldn't find any relevant ...") }
ContextNeverEmpty(context) == FALSE
ContextIsEmpty(context) == context = <<>>

\* ask(question, kb), the knowledge base being initialized: the Graph-RAG
\* context or, when graph_rag_query fails, the results of
\* search_knowledge(question, 5, None).await?; then the early return or the LLM.
\* fails: the sections of step 3 that fail, or the one other call that fails.
Ask ==
  \E q \in Questions,
     fails \in (SUBSET GraphSections) \cup {{x} : x \in QuerySteps \ GraphSections},
     searchOk \in BOOLEAN :
    LET
        r == GraphRagQuery(graph, q, fails)
        propagated == ~r.ok /\ ~searchOk
        context == IF r.ok THEN Assemble(r.bundle)
                   ELSE IF searchOk THEN Section("knowledge", graph.docs > 0)
                   ELSE <<>>
    IN
    \* when a call outside step 3 fails the question plays no part in the
    \* outcome
    /\ fails \cap (QuerySteps \ GraphSections) # {} => q = NoAskOp.question
    /\ r.ok => searchOk
    /\ askOp' = [op |-> "ask", question |-> q, fails |-> fails, ok |-> r.ok,
                 bundle |-> r.bundle, context |-> context,
                 result |-> IF propagated THEN "err" ELSE "ok",
                 llmCalled |-> ~propagated /\ ~ContextIsEmpty(context),
                 answer |-> IF propagated THEN "error"
                            ELSE IF ContextIsEmpty(context) THEN "no_info"
                            ELSE "llm"]
    /\ UNCHANGED graph
    /\ UNCHANGED otherThanAsk

AskIdle ==
  /\ graph = EmptyGraph
  /\ askOp = NoAskOp

NextAsk ==
  \/ MentionInMeeting
  \/ AddActionItem
  \/ AddDecision
  \/ AddChunk
  \/ Ask

\* ==========================================================================
\* The segment table with its fields: add_segment from the ASR thread,
\* get_meeting_segments, relabel_speakers
\* ==========================================================================
MaxSegRows == 2        \* rows of the segment table

\* kb.add_segment(&meeting_id, &speaker, &text, timestamp, timestamp + 1000)
SegmentMs == 1000

\* let speaker = if source == "microphone" { "You" } else { "Guest" };
SourceSpeaker(source) == IF source = "microphone" THEN <<"You">> ELSE <<"Guest">>

\* transcription.text: a sequence of characters, " " standing for whitespace
Texts == {<<>>, <<" ">>, <<" ", "a">>}

\* text.trim(): the text without its leading and trailing whitespace
RECURSIVE TrimStart(_)
TrimStart(text) ==
  IF text # <<>> /\ Head(text) = " " THEN TrimStart(Tail(text)) ELSE text

RECURSIVE TrimEnd(_)
TrimEnd(text) ==
  IF text # <<>> /\ text[Len(text)] = " "
    THEN TrimEnd(SubSeq(text, 1, Len(text) - 1)) ELSE text

Trim(text) == TrimEnd(TrimStart(text))

Timestamps == {0, 1000}

\* "Speaker 1", "Speaker 2", ...: the label of a diarized speaker_id
SpeakerLabel(speaker_id) == <<"Speaker", speaker_id>>

\* (start_ms, end_ms, speaker_id, speaker_label)
Range(s, e, id) == [start_ms |-> s, end_ms |-> e, speaker_id |-> id,
                    label |-> SpeakerLabel(id)]

\* What the diarization collaborator hands over: one range, or two ranges in
\* time order that do not overlap, of different speakers.
RangeEnds == {0, 500, 2000}

Diarizations ==
  {<<Range(s, e, 1)>> : s \in RangeEnds, e \in RangeEnds}
  \cup {<<Range(s, e, 1), Range(s2, e2, 2)>> :
          s \in RangeEnds, e \in RangeEnds, s2 \in RangeEnds, e2 \in RangeEnds}

WellFormed(diarization) ==
  /\ \A i \in 1..Len(diarization) : diarization[i].start_ms < diarization[i].end_ms
  /\ \A i \in 1..(Len(diarization) - 1) :
       diarization[i].end_ms <= diarization[i + 1].start_ms

NoSegOp == [op |-> "none", arg |-> None, result |-> "ok", value |-> 0,
            embedOk |-> TRUE, extractOk |-> TRUE, embedded |-> FALSE,
            enriched |-> FALSE, diarization |-> <<>>, before |-> {},
            is_final |-> FALSE, text |-> <<>>, current |-> None]

\* start_meeting(title, participants): creates the meeting in the knowledge
\* base and stores its id as the current meeting
StartMeetingCommand ==
  \E m \in MeetingIds \ {current_meeting_id} :
    /\ current_meeting_id' = m
    /\ sOp' = [NoSegOp EXCEPT !.op = "start_meeting", !.arg = m]
    /\ UNCHANGED <<segs, ingested>>
    /\ UNCHANGED otherThanSeg

\* endMeeting() of the main page: stop_recording, then end_meeting, which
\* closes the meeting and clears the current meeting id; when a command
\* fails the handler stops there (failAt: 0 none, 1 stop_recording,
\* 2 end_meeting)
EndMeeting ==
  \E failAt \in 0..2 :
    /\ current_meeting_id # None
    /\ current_meeting_id' = IF failAt = 0 THEN None ELSE current_meeting_id
    /\ sOp' = [NoSegOp EXCEPT !.op = "end_meeting", !.arg = current_meeting_id,
                              !.result = IF failAt = 0 THEN "ok" ELSE "err"]
    /\ UNCHANGED <<segs, ingested>>
    /\ UNCHANGED otherThanSeg

\* the row add_segment creates (the embedding vector apart)
SegmentRowEndIsStart(m, n, speaker, text, start_ms, end_ms) ==
  [table |-> "segment", meeting_id |-> m, n |-> n, speaker |-> speaker,
   text |-> text, start_ms |-> start_ms, end_ms |-> start_ms]
SegmentRow(m, n, speaker, text, start_ms, end_ms) ==
  [table |-> "segment", meeting_id |-> m, n |-> n, speaker |-> speaker,
   text |-> text, start_ms |-> start_ms, end_ms |-> end_ms]

\* add_segment: Generating embedding, Creating segment in DB, Extracting
\* entities. A failed embedding is logged and the segment is stored without
\* enrichment; a failed extraction is contained; a failed create is returned.
AddSegmentOutcomeEmbedOrAbort(embedOk, storeOk, extractOk) ==
  [stored |-> embedOk /\ storeOk,
   embedded |-> embedOk,
   enriched |-> embedOk /\ storeOk /\ extractOk,
   result |-> IF embedOk /\ storeOk THEN "ok" ELSE "err"]
AddSegmentOutcome(embedOk, storeOk, extractOk) ==
  [stored |-> storeOk,
   embedded |-> embedOk,
   enriched |-> embedOk /\ storeOk /\ extractOk,
   result |-> IF storeOk THEN "ok" ELSE "err"]

\* if transcription.is_final && !transcription.text.trim().is_empty()
IsSavableUntrimmed(is_final, text) == is_final /\ text # <<>>
IsSavable(is_final, text) == is_final /\ Trim(text) # <<>>

\* The ASR processing thread on a transcription: a final, non-empty one is
\* handed to add_segment under the current meeting id, if there is one (the
\* knowledge base is open whenever a meeting was started); the result of
\* add_segment is dropped.  Any other transcription leaves the store alone.
SaveTranscript ==
  \E is_final \in BOOLEAN, source \in {"microphone", "system"}, text \in Texts,
     timestamp \in Timestamps, embedOk \in BOOLEAN, storeOk \in BOOLEAN,
     extractOk \in BOOLEAN :
    LET m == current_meeting_id
        n == Cardinality(segs) + 1
        o == AddSegmentOutcome(embedOk, storeOk, extractOk)
        row == SegmentRow(m, n, SourceSpeaker(source), text, timestamp,
                          timestamp + SegmentMs)
        given == [meeting_id |-> m, n |-> n, speaker |-> SourceSpeaker(source),
                  text |-> text, start_ms |-> timestamp,
                  end_ms |-> timestamp + SegmentMs]
    IN
    IF IsSavable(is_final, text) /\ m # None
      THEN
        /\ Cardinality(segs) < MaxSegRows
        /\ embedOk \/ extractOk                 \* one failure per call
        /\ storeOk \/ (embedOk /\ extractOk)
        /\ segs' = IF o.stored THEN segs \cup {row} ELSE segs
        /\ ingested' = IF o.result = "ok" THEN ingested \cup {given} ELSE ingested
        /\ sOp' = [op |-> "add_segment", arg |-> given, result |-> o.result,
                   value |-> n, embedOk |-> embedOk, extractOk |-> extractOk,
                   embedded |-> o.stored /\ o.embedded, enriched |-> o.enriched,
                   diarization |-> <<>>, before |-> {},
                   is_final |-> is_final, text |-> text, current |-> m]
        /\ UNCHANGED current_meeting_id
        /\ UNCHANGED otherThanSeg
      ELSE
        \* nothing is called: the source, the timestamp and the collaborators
        \* play no part
        /\ source = "microphone" /\ timestamp = 0
        /\ embedOk /\ storeOk /\ extractOk
        /\ sOp' = [NoSegOp EXCEPT !.op = "dropped", !.is_final = is_final,
                                  !.text = text, !.current = m]
        /\ UNCHANGED <<segs, ingested, current_meeting_id>>
        /\ UNCHANGED otherThanSeg

\* the temporal midpoint of a segment
Midpoint(r) == (r.start_ms + r.end_ms) \div 2

\* the midpoint falls inside the range; a midpoint on the boundary of two
\* ranges is inside both
InRangeHalfOpen(mid, d) == d.start_ms <= mid /\ mid < d.end_ms
InRange(mid, d) == d.start_ms <= mid /\ mid <= d.end_ms

\* the first range, in time order, the midpoint falls inside
RECURSIVE FindRange(_, _)
FindRange(mid, diarization) ==
  IF diarization = <<>> THEN None
  ELSE IF InRange(mid, Head(diarization)) THEN Head(diarization).label
  ELSE FindRange(mid, Tail(diarization))

\* Finds "Guest" segments in the meeting
IsGenericAny(speaker) == TRUE
IsGeneric(speaker) == speaker = <<"Guest">>

Relabeled(r, m, diarization) ==
  IF r.meeting_id = m /\ IsGeneric(r.speaker)
       /\ FindRange(Midpoint(r), diarization) # None
    THEN [r EXCEPT !.speaker = FindRange(Midpoint(r), diarization)]
    ELSE r

\* relabel_speakers(meeting_id, diarization) -> Result<usize, String>
RelabelSpeakers ==
  \E m \in MeetingIds, diarization \in Diarizations :
    LET after == {Relabeled(r, m, diarization) : r \in segs} IN
    /\ WellFormed(diarization)
    /\ segs' = after
    /\ sOp' = [op |-> "relabel_speakers", arg |-> m, result |-> "ok",
               value |-> Cardinality(after \ segs),
               embedOk |-> TRUE, extractOk |-> TRUE, embedded |-> FALSE,
               enriched |-> FALSE, diarization |-> diarization, before |-> segs,
               is_final |-> FALSE, text |-> <<>>, current |-> None]
    /\ UNCHANGED <<ingested, current_meeting_id>>
    /\ UNCHANGED otherThanSeg

SegIdle ==
  /\ current_meeting_id = None
  /\ segs = {}
  /\ ingested = {}
  /\ sOp = NoSegOp

NextSeg ==
  \/ StartMeetingCommand
  \/ EndMeeting
  \/ SaveTranscript
  \/ RelabelSpeakers

\* ==========================================================================
\* upload_document: add_knowledge_source with its chunk loop and its
\* extraction over the sampled paragraphs
\* ==========================================================================
MaxParas == 2          \* paragraphs of an uploaded document

\* content.split("\n\n").filter(|s| s.len() > 50).take(20)
MinParagraphLen == 50
SampleCap == 20

\* A paragraph, by its length and by what the extractor makes of it:
\* ner: entity extraction fails, finds nothing or finds entities;
\* rel: relationship extraction is not run, fails or finds relationships.
Paragraphs ==
  {p \in [len : {MinParagraphLen, MinParagraphLen + 1},
          ner : {"fail", "none", "ents"},
          rel : {"fail", "none", "rels"}] :
     /\ (p.ner = "ents") <=> (p.rel # "none")
     /\ p.len = MinParagraphLen => p.ner = "none"}

RECURSIVE SeqsUpTo(_, _)
SeqsUpTo(S, n) ==
  IF n = 0 THEN {<<>>}
  ELSE LET shorter == SeqsUpTo(S, n - 1)
       IN shorter \cup {Append(q, x) : q \in {y \in shorter : Len(y) = n - 1}, x \in S}

Take(seq, n) == SubSeq(seq, 1, IF Len(seq) < n THEN Len(seq) ELSE n)

\* the sampled paragraphs, with their position in the document
RECURSIVE LongParagraphs(_, _)
LongParagraphs(paras, i) ==
  IF i > Len(paras) THEN <<>>
  ELSE (IF paras[i].len > MinParagraphLen
          THEN <<[at |-> i, ner |-> paras[i].ner, rel |-> paras[i].rel]>>
          ELSE <<>>)
       \o LongParagraphs(paras, i + 1)

TextChunks(paras) == Take(LongParagraphs(paras, 1), SampleCap)

\* extract_with_relations(text): no entities, no relationship extraction;
\* a failed relationship extraction gives vec![]
ExtractWithRelations(sample) ==
  IF sample.ner = "fail" THEN [ok |-> FALSE, entities |-> FALSE, relationships |-> FALSE]
  ELSE IF sample.ner = "none" THEN [ok |-> TRUE, entities |-> FALSE, relationships |-> FALSE]
  ELSE [ok |-> TRUE, entities |-> TRUE, relationships |-> sample.rel = "rels"]

NoIngOp == [op |-> "none", source |-> None, result |-> "ok", nChunks |-> 0,
            stored |-> 0, paras |-> <<>>, failedWrites |-> 0]

\* for chunk in chunks { embed(&chunk.text)?; db.create("knowledge_chunk")...await?; }
\* failAt = k > 0: the embedding or the create of the k-th chunk fails.
ChunkLoop(s, ids, failAt) ==
  LET order == SetToSeq(ids)
      done == IF failAt = 0 THEN Len(order) ELSE failAt - 1
  IN [result |-> IF failAt = 0 THEN "ok" ELSE "err",
      chunks |-> {[cid |-> order[i], source_id |-> Full(s)] : i \in 1..done}]

\* for text_chunk in text_chunks { match extract_with_relations(text_chunk) ... }
\* storeUp = FALSE: the store is unreachable, every write of the loop fails.
RECURSIVE SampleLoopAbortOnError(_, _, _, _)
SampleLoopAbortOnError(samples, s, storeUp, acc) ==
  IF samples = <<>> THEN acc
  ELSE
    LET x == ExtractWithRelations(Head(samples)) IN
    IF ~x.ok THEN [acc EXCEPT !.result = "err"]
    ELSE SampleLoopAbortOnError(Tail(samples), s, storeUp,
           [acc EXCEPT
              !.entities = IF x.entities /\ storeUp
                             THEN @ \cup {[source |-> s, at |-> Head(samples).at]} ELSE @,
              !.relations = IF x.relationships /\ storeUp
                              THEN @ \cup {[source |-> s, at |-> Head(samples).at]} ELSE @,
              !.failedWrites = IF storeUp THEN @
                               ELSE @ + (IF x.entities THEN 1 ELSE 0)
                                      + (IF x.relationships THEN 1 ELSE 0)])

RECURSIVE SampleLoop(_, _, _, _)
SampleLoop(samples, s, storeUp, acc) ==
  IF samples = <<>> THEN acc
  ELSE
    LET x == ExtractWithRelations(Head(samples)) IN
    IF ~x.ok THEN SampleLoop(Tail(samples), s, storeUp, acc)
    ELSE SampleLoop(Tail(samples), s, storeUp,
           [acc EXCEPT
              !.entities = IF x.entities /\ storeUp
                             THEN @ \cup {[source |-> s, at |-> Head(samples).at]} ELSE @,
              !.relations = IF x.relationships /\ storeUp
                              THEN @ \cup {[source |-> s, at |-> Head(samples).at]} ELSE @,
              !.failedWrites = IF storeUp THEN @
                               ELSE @ + (IF x.entities THEN 1 ELSE 0)
                                      + (IF x.relationships THEN 1 ELSE 0)])

\* upload_document -> kb.add_knowledge_source(url, title, content, type, tags)
UploadDocument ==
  \E nChunks \in 1..Cardinality(FreeChunkIds),
     paras \in SeqsUpTo(Paragraphs, MaxParas),
     failAt \in 0..MaxChunks, storeUp \in BOOLEAN :
    LET s == CHOOSE x \in SrcIds \ sources : TRUE     \* the id the store generates
        ids == {i \in FreeChunkIds : Cardinality({j \in FreeChunkIds : j < i}) < nChunks}
        c == ChunkLoop(s, ids, failAt)
        e == IF c.result = "ok"
               THEN SampleLoop(TextChunks(paras), s, storeUp,
                               [result |-> "ok", entities |-> {}, relations |-> {},
                                failedWrites |-> 0])
               ELSE [result |-> "err", entities |-> {}, relations |-> {},
                     failedWrites |-> 0]
    IN
    /\ SrcIds \ sources # {}
    /\ failAt <= nChunks
    /\ failAt > 0 => (paras = <<>> /\ storeUp)      \* the sample loop is not reached
    /\ ~storeUp => \E i \in 1..Len(paras) : paras[i].ner = "ents"
    /\ sources' = sources \cup {s}
    /\ chunks' = chunks \cup c.chunks
    /\ srcEntities' = srcEntities \cup e.entities
    /\ srcRelations' = srcRelations \cup e.relations
    /\ ingOp' = [op |-> "add_knowledge_source", source |-> s, result |-> e.result,
                 nChunks |-> Cardinality(ids), stored |-> Cardinality(c.chunks),
                 paras |-> paras, failedWrites |-> e.failedWrites]
    /\ UNCHANGED <<lastOp, prevOp>>
    /\ UNCHANGED otherThanIng

IngIdle ==
  /\ srcEntities = {}
  /\ srcRelations = {}
  /\ ingOp = NoIngOp

NextIng == UploadDocument

\* ==========================================================================
\* Temporal parsing of a question (Graph-RAG query flow, step 2)
\* ==========================================================================
MaxN == 2              \* largest N of "N weeks ago" / "N days ago"

\* A question is read as the sequence of its phrases; a phrase either is one
\* of the relative time phrases or is other text.  Times are in hours.
PhraseKinds == {"weeks_ago", "days_ago", "last_week", "last_month",
                "yesterday", "other"}
Phrase(kind, n) == [kind |-> kind, n |-> n]
Phrases == {Phrase(k, n) : k \in {"weeks_ago", "days_ago"}, n \in 1..MaxN}
             \cup {Phrase(k, 0) : k \in PhraseKinds \ {"weeks_ago", "days_ago"}}
TemporalTexts == {<<>>} \cup {<<a>> : a \in Phrases}
                   \cup {<<a, b>> : a \in Phrases, b \in Phrases}

Nows == {0, 1000}      \* the instant handed to the parser
ClockTimes == {1, 2}   \* readings of the wall clock

NoWindow == [some |-> FALSE, start |-> 0, end |-> 0]
Between(s, e) == [some |-> TRUE, start |-> s, end |-> e]

\* the patterns, in the order they are tried
TemporalRulesYesterdayFirst == <<"yesterday", "last_month", "last_week",
                                 "days_ago", "weeks_ago">>
TemporalRules == <<"weeks_ago", "days_ago", "last_week", "last_month",
                   "yesterday">>

\* the first place in the text where a pattern matches (0: nowhere)
RECURSIVE FirstMatch(_, _, _)
FirstMatch(text, kind, i) ==
  IF i > Len(text) THEN 0
  ELSE IF text[i].kind = kind THEN i
  ELSE FirstMatch(text, kind, i + 1)

\* the window of one rule around `now`
WindowEndsAtNow(kind, n, now) ==
  Between(now - 24, now)
Window(kind, n, now) ==
  CASE kind = "weeks_ago"  -> Between(now - 7 * 24 * n - 84, now - 7 * 24 * n + 84)
    [] kind = "days_ago"   -> Between(now - 24 * n - 12, now - 24 * n + 12)
    [] kind = "last_week"  -> Between(now - 14 * 24, now - 7 * 24)
    [] kind = "last_month" -> Between(now - 30 * 24, now)
    [] kind = "yesterday"  -> Between(now - 2 * 24, now - 24)

RECURSIVE TryRules(_, _, _)
TryRules(rule, text, now) ==
  IF rule > Len(TemporalRules) THEN [rule |-> None, window |-> NoWindow]
  ELSE LET at == FirstMatch(text, TemporalRules[rule], 1)
       IN IF at > 0
          THEN [rule |-> TemporalRules[rule],
                window |-> Window(TemporalRules[rule], text[at].n, now)]
          ELSE TryRules(rule + 1, text, now)

ParseTemporalReadsClock(text, now) == TryRules(1, text, clock)
ParseTemporal(text, now) == TryRules(1, text, now)

NoTimeOp == [op |-> "none", text |-> <<>>, now |-> 0, rule |-> None,
             window |-> NoWindow, at |-> 0, repeat |-> FALSE,
             earlier |-> NoWindow]

\* the wall clock moves on
Tick ==
  /\ \E t \in ClockTimes : t > clock /\ clock' = t
  /\ UNCHANGED <<tOp, otherThanTime>>

\* one call of the parser; `repeat` says that the call before it had the same
\* text and the same `now` and was made at another reading of the wall clock
Parse ==
  \E text \in TemporalTexts, now \in Nows :
    LET r == ParseTemporal(text, now)
        again == tOp.op = "parse" /\ tOp.text = text /\ tOp.now = now
                   /\ tOp.at # clock
    IN /\ tOp' = [op |-> "parse", text |-> text, now |-> now, at |-> clock,
                  rule |-> r.rule, window |-> r.window, repeat |-> again,
                  earlier |-> IF again THEN tOp.window ELSE NoWindow]
       /\ UNCHANGED <<clock, otherThanTime>>

TimeIdle ==
  /\ clock = 1
  /\ tOp = NoTimeOp

NextTime ==
  \/ Tick
  \/ Parse

\* ==========================================================================
\* Action items: the action_item table, the status toggle of the meeting
\* page and the dashboard's upcoming items and insights
\* ==========================================================================
MaxItems == 2          \* rows of the action_item table

Statuses == {"open", "in_progress", "done", "completed"}

NoItemOp == [op |-> "none", arg |-> 0, result |-> "ok", upcoming |-> <<>>,
             openActions |-> 0]

\* add_action_item(): a new row, newest first as get_all_action_items
\* returns them (ORDER BY created_at DESC)
NewActionItem ==
  \E deadline \in BOOLEAN :
    /\ Len(actionItems) < MaxItems
    /\ actionItems' = <<[id |-> Len(actionItems) + 1, status |-> "open",
                         deadline |-> deadline]>> \o actionItems
    /\ iOp' = [NoItemOp EXCEPT !.op = "add_action_item",
                               !.arg = Len(actionItems) + 1]
    /\ UNCHANGED otherThanItems

\* updateActionStatus(actionId, newStatus) of the meeting page: the row is
\* rewritten by update_action_item_status unless the command fails
UpdateActionStatus ==
  \E i \in 1..Len(actionItems), newStatus \in Statuses, ok \in BOOLEAN :
    /\ actionItems' = IF ok THEN [actionItems EXCEPT ![i].status = newStatus]
                      ELSE actionItems
    /\ iOp' = [NoItemOp EXCEPT !.op = "update_status",
                               !.arg = actionItems[i].id,
                               !.result = IF ok THEN "ok" ELSE "err"]
    /\ UNCHANGED otherThanItems

\* actionItems.filter(a => a.status !== 'completed' ...)
StillOpen(a) == a.status # "completed"

RECURSIVE Filter(_, _, _)
Filter(seq, withDeadline, i) ==
  IF i > Len(seq) THEN <<>>
  ELSE (IF StillOpen(seq[i]) /\ seq[i].deadline = withDeadline
          THEN <<seq[i]>> ELSE <<>>) \o Filter(seq, withDeadline, i + 1)

\* upcomingItems: the open items with a deadline, then up to three without,
\* five at most
UpcomingItems(items) ==
  Take(Filter(items, TRUE, 1) \o Take(Filter(items, FALSE, 1), 3), 5)

\* insights: const openActions = actionItems.filter(...).length
OpenActions(items) ==
  Cardinality({i \in 1..Len(items) : StillOpen(items[i])})

\* the dashboard loads the rows (get_all_action_items; [] when it fails) and
\* derives what it shows
LoadDashboard ==
  \E ok \in BOOLEAN :
    LET loaded == IF ok THEN actionItems ELSE <<>>
    IN /\ iOp' = [op |-> "load", arg |-> 0,
                  result |-> IF ok THEN "ok" ELSE "err",
                  upcoming |-> UpcomingItems(loaded),
                  openActions |-> OpenActions(loaded)]
       /\ UNCHANGED <<actionItems, otherThanItems>>

ItemsIdle ==
  /\ actionItems = <<>>
  /\ iOp = NoItemOp

NextItems ==
  \/ NewActionItem
  \/ UpdateActionStatus
  \/ LoadDashboard

\* ==========================================================================
\* The root page: model check, LLM configuration check, setup wizard and
\* engine initialization; the pages that initialize the knowledge base again
\* ==========================================================================
NoUrl == <<>>
SomeUrl == <<"http">>

\* the flags of the root page as the app is launched
FreshPage == [checkingModels |-> TRUE, modelsReady |-> FALSE,
              checkingLLM |-> FALSE, llmConfigured |-> FALSE,
              appInitialized |-> FALSE]

NoEngines == [entities |-> FALSE, knowledge_base |-> FALSE]

NoBootOp == [cmd |-> "none", ok |-> TRUE, by |-> "none",
             entitiesReady |-> FALSE]

\* {#if checkingModels} ... {:else if !modelsReady} ... {:else} <SecondBrain/>
Screen(p) ==
  IF p.checkingModels THEN "loading"
  ELSE IF ~p.modelsReady THEN "model_setup"
  ELSE IF p.checkingLLM THEN "checking"
  ELSE IF ~p.llmConfigured THEN "wizard"
  ELSE IF ~p.appInitialized THEN "initializing"
  ELSE "main"

\* settings.llm_url && settings.llm_url.trim() !== "" || setupState ===
\* "skipped" || setupState === "true"
IsConfigured(s) ==
  s.llm_url # NoUrl \/ s.llm_setup_complete \in {"skipped", "true"}

\* onMount: are_models_ready (false when the command fails), then
\* checkLLMConfiguration up to its first await
OnMount ==
  \E ready \in BOOLEAN :
    /\ boot.at = "mount"
    /\ page' = [page EXCEPT !.modelsReady = ready, !.checkingModels = FALSE,
                            !.checkingLLM = ready]
    /\ boot' = [boot EXCEPT !.at = IF ready THEN "check" ELSE "model_setup"]
    /\ bOp' = [NoBootOp EXCEPT !.cmd = "are_models_ready", !.ok = ready,
                               !.by = "onMount"]
    /\ UNCHANGED <<settings, engines>>
    /\ UNCHANGED otherThanBoot

\* handleSetupComplete: the models are there
HandleSetupComplete ==
  /\ boot.at = "model_setup"
  /\ page' = [page EXCEPT !.modelsReady = TRUE, !.checkingLLM = TRUE]
  /\ boot' = [boot EXCEPT !.at = "check"]
  /\ bOp' = [NoBootOp EXCEPT !.by = "handleSetupComplete"]
  /\ UNCHANGED <<settings, engines>>
  /\ UNCHANGED otherThanBoot

\* what the catch block of checkLLMConfiguration and the line after it do
CheckFailed(p) == [p EXCEPT !.llmConfigured = FALSE, !.checkingLLM = FALSE]

\* checkLLMConfiguration up to the call of initializeApp: get_user_settings
\* and get_app_state (readOk: both resolve)
CheckLLMConfiguration ==
  \E readOk \in BOOLEAN :
    LET configured == readOk /\ IsConfigured(settings) IN
    /\ boot.at = "check"
    /\ page' = IF configured THEN [page EXCEPT !.llmConfigured = TRUE]
               ELSE CheckFailed(page)
    /\ boot' = [at |-> IF configured THEN "app_start" ELSE "wizard",
                caller |-> "checkLLMConfiguration",
                configuredAtCheck |-> IsConfigured(settings)]
    /\ bOp' = [NoBootOp EXCEPT !.cmd = "get_user_settings", !.ok = readOk,
                               !.by = "checkLLMConfiguration"]
    /\ UNCHANGED <<settings, engines>>
    /\ UNCHANGED otherThanBoot

\* an await of initializeApp outside its try blocks rejects: awaited inside
\* the try of checkLLMConfiguration the rejection lands in its catch; called
\* from handleLLMSetupComplete nothing handles it
Thrown(cmd) ==
  /\ page' = IF boot.caller = "checkLLMConfiguration" THEN CheckFailed(page)
             ELSE page
  /\ boot' = [boot EXCEPT !.at = IF boot.caller = "checkLLMConfiguration"
                                   THEN "wizard" ELSE "stuck"]
  /\ bOp' = [NoBootOp EXCEPT !.cmd = cmd, !.ok = FALSE, !.by = "initializeApp"]
  /\ UNCHANGED <<settings, engines>>

\* initializeApp: isRecording = await invoke("is_recording"), then the user
\* store, ASR, Smart Turn and the embeddings, each in its own try
InitializeAppStart ==
  \E ok \in BOOLEAN :
    /\ boot.at = "app_start"
    /\ IF ok
         THEN /\ boot' = [boot EXCEPT !.at = "app_entities"]
              /\ bOp' = [NoBootOp EXCEPT !.cmd = "is_recording",
                                         !.by = "initializeApp"]
              /\ UNCHANGED <<page, settings, engines>>
         ELSE Thrown("is_recording")
    /\ UNCHANGED otherThanBoot

\* try { await invoke("initialize_entities") } catch (e) { console.error }
InitializeAppEntities ==
  \E ok \in BOOLEAN :
    /\ boot.at = "app_entities"
    /\ engines' = [engines EXCEPT !.entities = @ \/ ok]
    /\ boot' = [boot EXCEPT !.at = "app_knowledge_base"]
    /\ bOp' = [NoBootOp EXCEPT !.cmd = "initialize_entities", !.ok = ok,
                               !.by = "initializeApp"]
    /\ UNCHANGED <<page, settings>>
    /\ UNCHANGED otherThanBoot

\* try { await invoke("initialize_knowledge_base") } catch (e) { ... }
InitializeAppKnowledgeBase ==
  \E ok \in BOOLEAN :
    /\ boot.at = "app_knowledge_base"
    /\ engines' = [engines EXCEPT !.knowledge_base = @ \/ ok]
    /\ boot' = [boot EXCEPT !.at = "app_rest"]
    /\ bOp' = [cmd |-> "initialize_knowledge_base", ok |-> ok,
               by |-> "initializeApp", entitiesReady |-> engines.entities]
    /\ UNCHANGED <<page, settings>>
    /\ UNCHANGED otherThanBoot

\* the LLM, the diarization and the audio pipeline, each in its own try; the
\* listeners, awaited outside any try; appInitialized = true.  Back in
\* checkLLMConfiguration: checkingLLM = false
InitializeAppRest ==
  \E ok \in BOOLEAN :
    /\ boot.at = "app_rest"
    /\ IF ok
         THEN /\ page' = [page EXCEPT !.appInitialized = TRUE,
                                      !.checkingLLM = FALSE]
              /\ boot' = [boot EXCEPT !.at = "main"]
              /\ bOp' = [NoBootOp EXCEPT !.cmd = "listen",
                                         !.by = "initializeApp"]
              /\ UNCHANGED <<settings, engines>>
         ELSE Thrown("listen")
    /\ UNCHANGED otherThanBoot

\* handleLLMSetupComplete: llmConfigured = true; initializeApp()
HandleLLMSetupComplete ==
  /\ page' = [page EXCEPT !.llmConfigured = TRUE]
  /\ boot' = [boot EXCEPT !.at = "app_start",
                          !.caller = "handleLLMSetupComplete"]

\* skipSetup of the wizard: set_app_state("llm_setup_complete", "skipped"),
\* then onComplete()
SkipSetup ==
  \E ok \in BOOLEAN :
    /\ boot.at = "wizard"
    /\ IF ok
         THEN /\ settings' = [settings EXCEPT !.llm_setup_complete = "skipped"]
              /\ HandleLLMSetupComplete
         ELSE UNCHANGED <<settings, page, boot>>
    /\ bOp' = [NoBootOp EXCEPT !.cmd = "set_app_state", !.ok = ok,
                               !.by = "skipSetup"]
    /\ UNCHANGED engines
    /\ UNCHANGED otherThanBoot

\* saveAndContinue of the wizard with a valid URL: the settings are saved, the
\* LLM is initialized, the setup is marked complete, then onComplete()
\* (failAt: 0 none, 1 set_user_setting, 2 initialize_llm, 3 set_app_state)
SaveAndContinue ==
  \E failAt \in 0..3 :
    /\ boot.at = "wizard"
    /\ settings' = [llm_url |-> IF failAt = 1 THEN settings.llm_url ELSE SomeUrl,
                    llm_setup_complete |-> IF failAt = 0 THEN "true"
                                           ELSE settings.llm_setup_complete]
    /\ IF failAt = 0 THEN HandleLLMSetupComplete ELSE UNCHANGED <<page, boot>>
    /\ bOp' = [NoBootOp EXCEPT !.cmd = "set_user_setting", !.ok = failAt = 0,
                               !.by = "saveAndContinue"]
    /\ UNCHANGED engines
    /\ UNCHANGED otherThanBoot

\* initializeKB of the knowledge page, on mount: the entity engine is
\* optional, the embeddings are required, then the knowledge base
InitializeKB ==
  \E entOk \in BOOLEAN, embOk \in BOOLEAN, kbOk \in BOOLEAN :
    LET ready == engines.entities \/ entOk IN
    /\ boot.at = "main"
    /\ ~embOk => kbOk                   \* nothing is invoked after the return
    /\ engines' = [entities |-> ready,
                   knowledge_base |-> engines.knowledge_base \/ (embOk /\ kbOk)]
    /\ bOp' = IF embOk
                THEN [cmd |-> "initialize_knowledge_base", ok |-> kbOk,
                      by |-> "initializeKB", entitiesReady |-> ready]
                ELSE [NoBootOp EXCEPT !.cmd = "initialize_embeddings",
                                      !.ok = FALSE, !.by = "initializeKB"]
    /\ UNCHANGED <<page, settings, boot>>
    /\ UNCHANGED otherThanBoot

\* initializeServices of the assistant page, on mount: entities, embeddings,
\* knowledge base and LLM, each in its own try
InitializeServices ==
  \E entOk \in BOOLEAN, kbOk \in BOOLEAN :
    LET ready == engines.entities \/ entOk IN
    /\ boot.at = "main"
    /\ engines' = [entities |-> ready,
                   knowledge_base |-> engines.knowledge_base \/ kbOk]
    /\ bOp' = [cmd |-> "initialize_knowledge_base", ok |-> kbOk,
               by |-> "initializeServices", entitiesReady |-> ready]
    /\ UNCHANGED <<page, settings, boot>>
    /\ UNCHANGED otherThanBoot

\* App Launch: the page and the engines start over, the saved settings stay
Launched == [at |-> "mount", caller |-> "none", configuredAtCheck |-> FALSE]

Relaunch ==
  /\ boot.at # "mount"
  /\ page' = FreshPage
  /\ engines' = NoEngines
  /\ boot' = Launched
  /\ bOp' = NoBootOp
  /\ UNCHANGED settings
  /\ UNCHANGED otherThanBoot

BootIdle ==
  /\ settings = [llm_url |-> NoUrl, llm_setup_complete |-> None]
  /\ page = FreshPage
  /\ engines = NoEngines
  /\ boot = Launched
  /\ bOp = NoBootOp

NextBoot ==
  \/ OnMount
  \/ HandleSetupComplete
  \/ CheckLLMConfiguration
  \/ InitializeAppStart
  \/ InitializeAppEntities
  \/ InitializeAppKnowledgeBase
  \/ InitializeAppRest
  \/ SkipSetup
  \/ SaveAndContinue
  \/ InitializeKB
  \/ InitializeServices
  \/ Relaunch

\* ==========================================================================
\* The audio pipeline and the transcription service of the frontend
\* (audio-pipeline.ts, transcription.ts).  One step per awaited call: what
\* runs between two awaits is one step of the single JavaScript thread.
\* ==========================================================================
MaxEvents == 2         \* transcription events the backend produces

AudioSources == {"microphone", "system"}

\* no segment (null)
NoSegment == [id |-> 0, speaker |-> None, text |-> 0, isFinal |-> FALSE]

\* the fields of TranscriptionService as constructed; channel, unlistenFn and
\* callback are TRUE when the field is not null
FreshService ==
  [callback |-> FALSE, unlistenFn |-> FALSE, isListening |-> FALSE,
   useChannel |-> TRUE, channel |-> FALSE]

\* the fields of AudioPipeline as constructed, and two records of the calls
\* made (history, not fields): destroyed, destroy() was called, and again,
\* the last initialize() was called after the last destroy()
FreshPipeline ==
  [isInitialized |-> FALSE, currentMicSegment |-> NoSegment,
   currentSystemSegment |-> NoSegment, segmentCounter |-> 0,
   transcripts |-> <<>>, destroyed |-> FALSE, again |-> FALSE]

NoPipeOp ==
  [op |-> None, ok |-> TRUE, text |-> 0, isFinal |-> FALSE, source |-> None,
   before |-> 0]

\* the current segment of a source
CurrentSegment(p, source) ==
  IF source = "microphone" THEN p.currentMicSegment ELSE p.currentSystemSegment

\* AudioPipeline.handleTranscription on the fields p; a text is the number of
\* the event that carries it
HandleTranscription(p, result) ==
  LET isYou == result.source = "microphone"
      currentSegment == CurrentSegment(p, result.source)
      put(q, s) == IF isYou THEN [q EXCEPT !.currentMicSegment = s]
                            ELSE [q EXCEPT !.currentSystemSegment = s]
  IN  IF currentSegment = NoSegment
        THEN put([p EXCEPT !.segmentCounter = @ + 1],
                 [id |-> p.segmentCounter + 1,
                  speaker |-> IF isYou THEN "you" ELSE "guest",
                  text |-> result.text, isFinal |-> result.isFinal])
        ELSE LET updated == [currentSegment EXCEPT !.text = result.text,
                                                   !.isFinal = result.isFinal]
             IN  IF result.isFinal
                   THEN put([p EXCEPT !.transcripts = Append(@, updated)],
                            NoSegment)
                   ELSE put(p, updated)

\* AudioPipeline.getTranscripts
GetTranscripts == pipe.transcripts

\* what TranscriptionService.destroy does after its await
Destroyed(s) ==
  [s EXCEPT !.unlistenFn = FALSE, !.channel = FALSE, !.isListening = FALSE,
            !.callback = FALSE]

\* AudioPipeline.initialize up to its first await.  A service that is
\* listening returns at once and the pipeline registers its callback.
PipelineInitialize ==
  /\ ~pipe.isInitialized
  /\ task.initialize = "idle"
  /\ IF svc.isListening
       THEN /\ svc' = [svc EXCEPT !.callback = TRUE]
            /\ pipe' = [pipe EXCEPT !.isInitialized = TRUE,
                                    !.again = pipe.destroyed]
            /\ pOp' = [NoPipeOp EXCEPT !.op = "initialize"]
            /\ UNCHANGED task
       ELSE /\ svc' = [svc EXCEPT !.channel = IF svc.useChannel THEN TRUE ELSE @]
            /\ task' = [task EXCEPT !.initialize =
                          IF svc.useChannel THEN "subscribe" ELSE "listen"]
            /\ pOp' = [NoPipeOp EXCEPT !.op = "initializing"]
            /\ pipe' = [pipe EXCEPT !.again = pipe.destroyed]
  /\ UNCHANGED <<backend, wire, got>>
  /\ UNCHANGED otherThanPipe

\* invoke('subscribe_transcription') resolves or rejects
InitializeSubscribed ==
  /\ task.initialize = "subscribe"
  /\ \E ok \in BOOLEAN :
       IF ok
         THEN /\ backend' = [backend EXCEPT !.subscribed = TRUE]
              /\ task' = [task EXCEPT !.initialize = "listen"]
              /\ pOp' = [NoPipeOp EXCEPT !.op = "subscribe_transcription"]
              /\ UNCHANGED svc
         ELSE /\ svc' = [svc EXCEPT !.useChannel = FALSE]
              /\ task' = [task EXCEPT !.initialize = "idle"]
              /\ pOp' = [NoPipeOp EXCEPT !.op = "initialize", !.ok = FALSE]
              /\ UNCHANGED backend
  /\ UNCHANGED <<pipe, wire, got>>
  /\ UNCHANGED otherThanPipe

\* listen('transcription') resolves or rejects; when it resolves the service
\* is listening and AudioPipeline.initialize goes on to setupCallbacks
InitializeListening ==
  /\ task.initialize = "listen"
  /\ \E ok \in BOOLEAN :
       IF ok
         THEN /\ backend' = [backend EXCEPT !.listeners = @ + 1]
              /\ svc' = [svc EXCEPT !.unlistenFn = TRUE, !.isListening = TRUE,
                                    !.callback = TRUE]
              /\ pipe' = [pipe EXCEPT !.isInitialized = TRUE]
              /\ pOp' = [NoPipeOp EXCEPT !.op = "initialize"]
         ELSE /\ svc' = [svc EXCEPT !.useChannel = FALSE]
              /\ pOp' = [NoPipeOp EXCEPT !.op = "initialize", !.ok = FALSE]
              /\ UNCHANGED <<backend, pipe>>
  /\ task' = [task EXCEPT !.initialize = "idle"]
  /\ UNCHANGED <<wire, got>>
  /\ UNCHANGED otherThanPipe

\* AudioPipeline.destroy: it calls TranscriptionService.destroy without
\* awaiting it, so the service's destroy runs up to its await (none when
\* useChannel is false) and the pipeline clears its own fields
PipelineDestroy ==
  /\ task.destroy = "idle"
  /\ IF svc.useChannel
       THEN /\ task' = [task EXCEPT !.destroy = "unsubscribe"]
            /\ UNCHANGED <<svc, backend>>
       ELSE /\ svc' = Destroyed(svc)
            /\ backend' = [backend EXCEPT !.listeners =
                             IF svc.unlistenFn THEN @ - 1 ELSE @]
            /\ UNCHANGED task
  /\ pipe' = [pipe EXCEPT !.transcripts = <<>>, !.isInitialized = FALSE,
                          !.destroyed = TRUE, !.again = FALSE]
  /\ pOp' = [NoPipeOp EXCEPT !.op = "destroy"]
  /\ UNCHANGED <<wire, got>>
  /\ UNCHANGED otherThanPipe

\* invoke('unsubscribe_transcription') resolves or rejects (the rejection is
\* caught) and TranscriptionService.destroy runs to its end
DestroyResumed ==
  /\ task.destroy = "unsubscribe"
  /\ \E ok \in BOOLEAN :
       backend' = [backend EXCEPT
                     !.subscribed = IF ok THEN FALSE ELSE @,
                     !.listeners = IF svc.unlistenFn THEN @ - 1 ELSE @]
  /\ svc' = Destroyed(svc)
  /\ task' = [task EXCEPT !.destroy = "idle"]
  /\ pOp' = [NoPipeOp EXCEPT !.op = "destroyed"]
  /\ UNCHANGED <<pipe, wire, got>>
  /\ UNCHANGED otherThanPipe

\* the backend produces a transcription: it is sent through the subscribed
\* channel and it is always emitted as a "transcription" event
BackendTranscription ==
  /\ backend.produced < MaxEvents
  /\ \E source \in AudioSources, isFinal \in BOOLEAN :
       LET result == [text |-> backend.produced + 1, isFinal |-> isFinal,
                      source |-> source]
       IN  /\ wire' = wire \cup {[route |-> "emit", result |-> result]}
                           \cup (IF backend.subscribed
                                   THEN {[route |-> "channel", result |-> result]}
                                   ELSE {})
           /\ pOp' = [NoPipeOp EXCEPT !.op = "transcription",
                                      !.text = result.text,
                                      !.isFinal = isFinal, !.source = source]
  /\ backend' = [backend EXCEPT !.produced = @ + 1]
  /\ UNCHANGED <<svc, pipe, task, got>>
  /\ UNCHANGED otherThanPipe

\* the oldest message in flight on a route
Oldest(route) ==
  {m \in wire : /\ m.route = route
                /\ \A o \in wire : o.route = route => m.result.text <= o.result.text}

\* a handler of the service converts the message and calls the callback,
\* which is the pipeline's handleTranscription
Callback(m) ==
  /\ got' = [got EXCEPT ![m.result.text] = @ + 1]
  /\ pipe' = HandleTranscription(pipe, m.result)
  /\ pOp' = [op |-> "handleTranscription", ok |-> TRUE,
             text |-> m.result.text, isFinal |-> m.result.isFinal,
             source |-> m.result.source, before |-> Len(pipe.transcripts)]

\* channel.onmessage
ChannelMessage ==
  /\ \E m \in Oldest("channel") :
       /\ wire' = wire \ {m}
       /\ IF svc.callback
            THEN Callback(m)
            ELSE /\ pOp' = [NoPipeOp EXCEPT !.op = "ignored"]
                 /\ UNCHANGED <<got, pipe>>
  /\ UNCHANGED <<svc, backend, task>>
  /\ UNCHANGED otherThanPipe

\* the handler given to listen('transcription'), while it is registered
TranscriptionEvent ==
  /\ \E m \in Oldest("emit") :
       /\ wire' = wire \ {m}
       /\ IF backend.listeners > 0 /\ svc.callback
            THEN Callback(m)
            ELSE /\ pOp' = [NoPipeOp EXCEPT !.op = "ignored"]
                 /\ UNCHANGED <<got, pipe>>
  /\ UNCHANGED <<svc, backend, task>>
  /\ UNCHANGED otherThanPipe

PipeIdle ==
  /\ svc = FreshService
  /\ backend = [subscribed |-> FALSE, listeners |-> 0, produced |-> 0]
  /\ pipe = FreshPipeline
  /\ task = [initialize |-> "idle", destroy |-> "idle"]
  /\ wire = {}
  /\ got = [n \in 1..MaxEvents |-> 0]
  /\ pOp = NoPipeOp

NextPipe ==
  \/ PipelineInitialize
  \/ InitializeSubscribed
  \/ InitializeListening
  \/ PipelineDestroy
  \/ DestroyResumed
  \/ BackendTranscription
  \/ ChannelMessage
  \/ TranscriptionEvent

\* ==========================================================================
\* Starting and ending a meeting from the main UI (SecondBrain.svelte).  A
\* handler in flight is a call: it waits for one command at a time and other
\* handlers run while it waits.
\* ==========================================================================
MaxCalls == 2          \* handlers of the main UI in flight at a time
MaxStarts == 2         \* start_meeting commands the backend runs

\* currentMeetingId = null; the ids of the meetings are 1, 2, ...
NoMeetingId == 0

NoCall == [fn |-> None, at |-> None, stopped |-> FALSE, ended |-> FALSE,
           cleared |-> FALSE]

NoUiOp == [op |-> None, cmd |-> None, fn |-> None, current |-> NoMeetingId,
           inflight |-> 0, stopped |-> FALSE, ended |-> FALSE,
           cleared |-> FALSE]

\* the calls that wait for a command
Waiting(cmd) == {c \in 1..MaxCalls : calls[c].at = cmd}

\* the slot a new call takes
FreeCall(c) ==
  /\ calls[c] = NoCall
  /\ \A d \in 1..(c - 1) : calls[d] # NoCall

\* invoke(cmd) by call c: what the page knows at that moment is recorded
Invoke(c, fn, cmd) ==
  /\ calls' = [calls EXCEPT ![c] = [@ EXCEPT !.fn = fn, !.at = cmd]]
  /\ uOp' = [NoUiOp EXCEPT !.op = "invoke", !.cmd = cmd, !.fn = fn,
                           !.current = ui.currentMeetingId,
                           !.inflight = Cardinality(Waiting(cmd))]

\* the handler of call c returns; the finally block clears isLoading
Return(c, u) ==
  /\ calls' = [calls EXCEPT ![c] = NoCall]
  /\ ui' = [u EXCEPT !.isLoading = FALSE]
  /\ uOp' = [NoUiOp EXCEPT !.op = "returned", !.fn = calls[c].fn,
                           !.current = u.currentMeetingId,
                           !.stopped = calls[c].stopped,
                           !.ended = calls[c].ended,
                           !.cleared = calls[c].cleared]

\* startMeeting() up to its first await
UiStartMeeting(c) ==
  IF ~ui.meetingTitle
    THEN /\ uOp' = [NoUiOp EXCEPT !.op = "returned", !.fn = "startMeeting",
                                  !.current = ui.currentMeetingId]
         /\ UNCHANGED <<ui, calls>>
    ELSE /\ ui' = [ui EXCEPT !.isLoading = TRUE]
         /\ Invoke(c, "startMeeting",
                   IF ui.currentMeetingId = NoMeetingId THEN "start_meeting"
                                                 ELSE "start_recording")

\* endMeeting() up to its first await (closeSuggestionsOverlay)
UiEndMeeting(c) ==
  IF ui.currentMeetingId = NoMeetingId
    THEN /\ uOp' = [NoUiOp EXCEPT !.op = "returned", !.fn = "endMeeting"]
         /\ UNCHANGED <<ui, calls>>
    ELSE /\ ui' = [ui EXCEPT !.isLoading = TRUE]
         /\ Invoke(c, "endMeeting", "overlay")

\* the listener of "hotkey-toggle-recording"
HotkeyToggleRecording ==
  /\ \E c \in 1..MaxCalls :
       /\ FreeCall(c)
       /\ IF ui.isRecording
            THEN UiEndMeeting(c)
            ELSE IF ui.currentMeetingId = NoMeetingId
                   THEN UiStartMeeting(c)
                   ELSE /\ uOp' = [NoUiOp EXCEPT !.op = "hotkey"]
                        /\ UNCHANGED <<ui, calls>>
  /\ UNCHANGED be
  /\ UNCHANGED otherThanUi

\* the buttons of the home view: Prepare and Start Recording are shown while
\* no meeting is current and nothing is recorded, End Meeting while recording
StartRecordingButton ==
  /\ ~ui.isRecording /\ ui.currentMeetingId = NoMeetingId /\ ui.meetingTitle
  /\ \E c \in 1..MaxCalls : FreeCall(c) /\ UiStartMeeting(c)
  /\ UNCHANGED be
  /\ UNCHANGED otherThanUi

\* createMeeting() up to its await
PrepareButton ==
  /\ ~ui.isRecording /\ ui.currentMeetingId = NoMeetingId /\ ui.meetingTitle
  /\ \E c \in 1..MaxCalls :
       /\ FreeCall(c)
       /\ ui' = [ui EXCEPT !.isLoading = TRUE]
       /\ Invoke(c, "createMeeting", "start_meeting")
  /\ UNCHANGED be
  /\ UNCHANGED otherThanUi

EndMeetingButton ==
  /\ ui.isRecording
  /\ \E c \in 1..MaxCalls : FreeCall(c) /\ UiEndMeeting(c)
  /\ UNCHANGED be
  /\ UNCHANGED otherThanUi

\* the user types a title
TypeTitle ==
  /\ ~ui.meetingTitle
  /\ ui' = [ui EXCEPT !.meetingTitle = TRUE]
  /\ uOp' = [NoUiOp EXCEPT !.op = "title"]
  /\ UNCHANGED <<calls, be>>
  /\ UNCHANGED otherThanUi

\* the catch of startMeeting: a current meeting with an empty live transcript
\* is ended again (the live transcript is empty until recording has started)
StartMeetingCatch(c) ==
  IF ui.currentMeetingId # NoMeetingId
    THEN /\ Invoke(c, "startMeeting", "cleanup")
         /\ UNCHANGED ui
    ELSE Return(c, ui)

\* start_meeting resolves with the id of the new meeting, or rejects
StartMeetingReturns ==
  /\ \E c \in Waiting("start_meeting") :
       \E ok \in {o \in BOOLEAN : o => be.created < MaxStarts} :
         IF ok
           THEN LET id == be.created + 1
                IN  /\ be' = [be EXCEPT !.created = id, !.current = id]
                    /\ IF calls[c].fn = "startMeeting"
                         THEN /\ ui' = [ui EXCEPT !.currentMeetingId = id]
                              /\ Invoke(c, "startMeeting", "start_recording")
                         ELSE Return(c, [ui EXCEPT !.currentMeetingId = id])
           ELSE /\ UNCHANGED be
                /\ IF calls[c].fn = "startMeeting"
                     THEN StartMeetingCatch(c)
                     ELSE Return(c, [ui EXCEPT !.currentMeetingId = NoMeetingId])
  /\ UNCHANGED otherThanUi

\* start_recording resolves or rejects
StartRecordingReturns ==
  /\ \E c \in Waiting("start_recording") :
       \E ok \in BOOLEAN :
         IF ok
           THEN /\ be' = [be EXCEPT !.recording = TRUE]
                /\ Invoke(c, "startMeeting", "overlay")
                /\ UNCHANGED ui
           ELSE /\ UNCHANGED be
                /\ StartMeetingCatch(c)
  /\ UNCHANGED otherThanUi

\* openSuggestionsOverlay / closeSuggestionsOverlay are done (they catch
\* their own errors); endMeeting goes on to stop_recording
OverlayReturns ==
  /\ \E c \in Waiting("overlay") :
       IF calls[c].fn = "startMeeting"
         THEN Return(c, ui)
         ELSE /\ Invoke(c, "endMeeting", "stop_recording")
              /\ UNCHANGED ui
  /\ UNCHANGED be
  /\ UNCHANGED otherThanUi

\* the end_meeting of the catch of startMeeting resolves or rejects
CleanupReturns ==
  /\ \E c \in Waiting("cleanup") :
       /\ \E ok \in BOOLEAN :
            be' = [be EXCEPT !.current = IF ok THEN NoMeetingId ELSE @]
       /\ Return(c, [ui EXCEPT !.currentMeetingId = NoMeetingId])
  /\ UNCHANGED otherThanUi

\* stop_recording resolves or rejects
StopRecordingReturns ==
  /\ \E c \in Waiting("stop_recording") :
       \E ok \in BOOLEAN :
         IF ok
           THEN /\ be' = [be EXCEPT !.recording = FALSE]
                /\ calls' = [calls EXCEPT ![c] = [@ EXCEPT !.stopped = TRUE,
                                                           !.at = "end_meeting"]]
                /\ uOp' = [NoUiOp EXCEPT !.op = "invoke", !.cmd = "end_meeting",
                                         !.fn = "endMeeting",
                                         !.current = ui.currentMeetingId]
                /\ UNCHANGED ui
           ELSE /\ UNCHANGED be
                /\ Return(c, ui)
  /\ UNCHANGED otherThanUi

\* end_meeting resolves or rejects
EndMeetingReturns ==
  /\ \E c \in Waiting("end_meeting") :
       \E ok \in BOOLEAN :
         IF ok
           THEN /\ be' = [be EXCEPT !.current = NoMeetingId]
                /\ calls' = [calls EXCEPT ![c] = [@ EXCEPT !.ended = TRUE,
                                                           !.at = "clear"]]
                /\ uOp' = [NoUiOp EXCEPT !.op = "invoke", !.cmd = "clear",
                                         !.fn = "endMeeting",
                                         !.current = ui.currentMeetingId]
                /\ UNCHANGED ui
           ELSE /\ UNCHANGED be
                /\ Return(c, ui)
  /\ UNCHANGED otherThanUi

\* clear_recent_transcripts and set_meeting_context resolve, or one of them
\* rejects; after them the page clears its meeting state and loads the
\* meetings
ClearReturns ==
  /\ \E c \in Waiting("clear") :
       \E ok \in BOOLEAN :
         IF ok
           THEN /\ ui' = [ui EXCEPT !.currentMeetingId = NoMeetingId,
                                    !.meetingTitle = FALSE]
                /\ calls' = [calls EXCEPT ![c] = [@ EXCEPT !.cleared = TRUE,
                                                           !.at = "loadMeetings"]]
                /\ uOp' = [NoUiOp EXCEPT !.op = "invoke", !.cmd = "get_meetings",
                                         !.fn = "endMeeting"]
           ELSE Return(c, ui)
  /\ UNCHANGED be
  /\ UNCHANGED otherThanUi

\* loadMeetings is done (it catches its own error) and endMeeting returns
LoadMeetingsReturns ==
  /\ \E c \in Waiting("loadMeetings") : Return(c, ui)
  /\ UNCHANGED be
  /\ UNCHANGED otherThanUi

\* "recording-started" / "recording-stopped" reach the root page, which hands
\* isRecording to the component
RecordingEvent ==
  /\ ui.isRecording # be.recording
  /\ ui' = [ui EXCEPT !.isRecording = be.recording]
  /\ uOp' = [NoUiOp EXCEPT !.op = "recording-event"]
  /\ UNCHANGED <<calls, be>>
  /\ UNCHANGED otherThanUi

UiIdle ==
  /\ ui = [currentMeetingId |-> NoMeetingId, isRecording |-> FALSE,
           isLoading |-> FALSE, meetingTitle |-> FALSE]
  /\ calls = [c \in 1..MaxCalls |-> NoCall]
  /\ be = [created |-> 0, current |-> NoMeetingId, recording |-> FALSE]
  /\ uOp = NoUiOp

NextUi ==
  \/ HotkeyToggleRecording
  \/ StartRecordingButton
  \/ PrepareButton
  \/ EndMeetingButton
  \/ TypeTitle
  \/ StartMeetingReturns
  \/ StartRecordingReturns
  \/ OverlayReturns
  \/ CleanupReturns
  \/ StopRecordingReturns
  \/ EndMeetingReturns
  \/ ClearReturns
  \/ LoadMeetingsReturns
  \/ RecordingEvent

\* ==========================================================================
\* The meeting detail page and the post-meeting highlights (the page in
\* transcription.ts, processPostMeetingHighlights in SecondBrain.svelte).
\* A list is modelled by whether it is non-empty.
\* ==========================================================================
\* the fields of a page that is not mounted / that was just created
NoDetailPage ==
  [mounted |-> FALSE, processingHighlights |-> FALSE, isLoading |-> FALSE,
   segments |-> FALSE, actionItems |-> FALSE, decisions |-> FALSE]

NoDetailOp == [op |-> None, ok |-> TRUE]

\* a call of loadMeetingData in flight: who made it and what its commands read
LoadMeetingData(who) ==
  [who |-> who, read |-> FALSE, segments |-> FALSE, actionItems |-> FALSE,
   decisions |-> FALSE]

\* endMeeting has ended the displayed meeting, with or without segments, and
\* calls processPostMeetingHighlights, which invokes process_meeting_highlights
ProcessPostMeetingHighlights ==
  /\ highlights = "none"
  /\ \E any \in BOOLEAN : store' = [store EXCEPT !.segments = any]
  /\ highlights' = "running"
  /\ dOp' = [NoDetailOp EXCEPT !.op = "process_meeting_highlights"]
  /\ UNCHANGED <<detail, loads>>
  /\ UNCHANGED otherThanDetail

\* process_meeting_highlights resolves, having stored the action items and
\* decisions it found (it may find none), or rejects (the catch only logs)
HighlightsReturn ==
  /\ highlights = "running"
  /\ \E ok \in BOOLEAN, a \in BOOLEAN, d \in BOOLEAN :
       /\ ok \/ (~a /\ ~d)
       /\ store' = [store EXCEPT !.actionItems = a, !.decisions = d]
       /\ highlights' = IF ok THEN "stored" ELSE "failed"
       /\ dOp' = [NoDetailOp EXCEPT !.op = "highlights", !.ok = ok]
  /\ UNCHANGED <<detail, loads>>
  /\ UNCHANGED otherThanDetail

\* after its reloads processPostMeetingHighlights dispatches
\* 'meeting-highlights-ready'; handleHighlightsReady of a mounted page runs
HighlightsReady ==
  /\ highlights = "stored"
  /\ highlights' = "done"
  /\ IF detail.mounted
       THEN /\ detail' = [detail EXCEPT !.processingHighlights = FALSE,
                                        !.isLoading = TRUE]
            /\ loads' = loads \cup {LoadMeetingData("event")}
       ELSE UNCHANGED <<detail, loads>>
  /\ dOp' = [NoDetailOp EXCEPT !.op = "meeting-highlights-ready"]
  /\ UNCHANGED store
  /\ UNCHANGED otherThanDetail

\* onMount up to its await: the listener is added and loadMeetingData called
DetailMount ==
  /\ highlights # "none"
  /\ ~detail.mounted
  /\ detail' = [NoDetailPage EXCEPT !.mounted = TRUE, !.isLoading = TRUE]
  /\ loads' = {LoadMeetingData("mount")}
  /\ dOp' = [NoDetailOp EXCEPT !.op = "mount"]
  /\ UNCHANGED <<store, highlights>>
  /\ UNCHANGED otherThanDetail

\* onDestroy: the listener is removed; the calls of the page are dropped
DetailDestroy ==
  /\ detail.mounted
  /\ detail' = NoDetailPage
  /\ loads' = {}
  /\ dOp' = [NoDetailOp EXCEPT !.op = "destroy"]
  /\ UNCHANGED <<store, highlights>>
  /\ UNCHANGED otherThanDetail

\* the commands of one loadMeetingData read the store
LoadReads ==
  /\ \E l \in loads :
       /\ ~l.read
       /\ loads' = (loads \ {l}) \cup
                     {[l EXCEPT !.read = TRUE, !.segments = store.segments,
                                !.actionItems = store.actionItems,
                                !.decisions = store.decisions]}
  /\ dOp' = [NoDetailOp EXCEPT !.op = "read"]
  /\ UNCHANGED <<store, highlights, detail>>
  /\ UNCHANGED otherThanDetail

\* what onMount does after its loadMeetingData
AfterMountLoad(d) ==
  IF ~d.actionItems /\ ~d.decisions /\ d.segments
    THEN [d EXCEPT !.processingHighlights = TRUE]
    ELSE d

\* Promise.all of a loadMeetingData resolves, or rejects and the fields stay;
\* the call of onMount is followed by the rest of onMount
LoadResolves ==
  /\ \E l \in loads :
       /\ l.read
       /\ loads' = loads \ {l}
       /\ \E ok \in BOOLEAN :
            LET loaded == IF ok THEN [detail EXCEPT !.segments = l.segments,
                                                    !.actionItems = l.actionItems,
                                                    !.decisions = l.decisions]
                                ELSE detail
                done == [loaded EXCEPT !.isLoading = FALSE]
            IN  /\ detail' = IF l.who = "mount" THEN AfterMountLoad(done)
                                                ELSE done
                /\ dOp' = [NoDetailOp EXCEPT !.op = "loaded", !.ok = ok]
  /\ UNCHANGED <<store, highlights>>
  /\ UNCHANGED otherThanDetail

DetailIdle ==
  /\ store = [segments |-> FALSE, actionItems |-> FALSE, decisions |-> FALSE]
  /\ highlights = "none"
  /\ detail = NoDetailPage
  /\ loads = {}
  /\ dOp = NoDetailOp

NextDetail ==
  \/ ProcessPostMeetingHighlights
  \/ HighlightsReturn
  \/ HighlightsReady
  \/ DetailMount
  \/ DetailDestroy
  \/ LoadReads
  \/ LoadResolves

\* the backend answers and the event loop runs; the user need not act
FairDetail ==
  /\ WF_vars(HighlightsReturn)
  /\ WF_vars(HighlightsReady)
  /\ WF_vars(LoadReads)
  /\ WF_vars(LoadResolves)

\* ==========================================================================
\* The suggestions overlay (routes/overlay/+page.svelte)
\* ==========================================================================
MaxFetches == 2        \* get_realtime_suggestions invocations in flight
EveryNth == 5          \* every fifth final transcription shows the indicator

\* the page as created; at is where onMount is, fetches the invocations of
\* get_realtime_suggestions that wait for their answer
FreshOverlay ==
  [at |-> "closed", isLoading |-> FALSE, suggestion |-> FALSE,
   transcriptCount |-> 0, fetches |-> 0]

NoOverlayOp == [op |-> None, invoked |-> 0]

\* fetchSuggestions() up to its await
FetchSuggestions(o) ==
  IF o.isLoading
    THEN o
    ELSE [o EXCEPT !.isLoading = TRUE, !.fetches = @ + 1]

\* the listeners registered so far
Listening(event) ==
  CASE event = "realtime-suggestion" ->
         ov.at \in {"listenTranscription", "listenStopped", "mounted"}
    [] event = "transcription" -> ov.at \in {"listenStopped", "mounted"}
    [] event = "recording-stopped" -> ov.at = "mounted"

\* the overlay window is opened: onMount up to its first await
OverlayOpen ==
  /\ ov.at = "closed"
  /\ ov' = [FreshOverlay EXCEPT !.at = "protection"]
  /\ oOp' = [NoOverlayOp EXCEPT !.op = "open"]
  /\ UNCHANGED otherThanOverlay

\* onMount goes on after set_screen_share_protection (its rejection is
\* caught) and after each listen()
OnMountAwait ==
  /\ ov.at \in {"protection", "listenSuggestion", "listenTranscription"}
  /\ ov' = [ov EXCEPT !.at =
              CASE ov.at = "protection" -> "listenSuggestion"
                [] ov.at = "listenSuggestion" -> "listenTranscription"
                [] ov.at = "listenTranscription" -> "listenStopped"]
  /\ oOp' = [NoOverlayOp EXCEPT !.op = "listen"]
  /\ UNCHANGED otherThanOverlay

\* the end of onMount, after the last listen(): isLoading = true and
\* fetchSuggestions()
OnMountFetch ==
  /\ ov.at = "listenStopped"
  /\ LET o == [ov EXCEPT !.at = "mounted", !.isLoading = TRUE]
     IN  /\ ov' = FetchSuggestions(o)
         /\ oOp' = [op |-> "mounted",
                    invoked |-> FetchSuggestions(o).fetches - o.fetches]
  /\ UNCHANGED otherThanOverlay

\* the listener of "realtime-suggestion"
RealtimeSuggestion ==
  /\ Listening("realtime-suggestion")
  /\ ov' = [ov EXCEPT !.suggestion = TRUE, !.isLoading = FALSE]
  /\ oOp' = [NoOverlayOp EXCEPT !.op = "realtime-suggestion"]
  /\ UNCHANGED otherThanOverlay

\* the listener of "transcription"; the count is kept modulo EveryNth
OverlayTranscription ==
  /\ Listening("transcription")
  /\ \E is_final \in BOOLEAN, is_turn_complete \in BOOLEAN :
       LET count == IF is_final THEN (ov.transcriptCount + 1) % EveryNth
                                ELSE ov.transcriptCount
       IN  ov' = [ov EXCEPT !.transcriptCount = count,
                            !.isLoading =
                               IF is_final /\ (is_turn_complete \/ count = 0)
                                 THEN TRUE ELSE @]
  /\ oOp' = [NoOverlayOp EXCEPT !.op = "transcription"]
  /\ UNCHANGED otherThanOverlay

\* the manual refresh button, disabled while isLoading
ManualRefresh ==
  /\ ov.at = "mounted"
  /\ ~ov.isLoading
  /\ ov.fetches < MaxFetches
  /\ ov' = FetchSuggestions(ov)
  /\ oOp' = [op |-> "refresh", invoked |-> 1]
  /\ UNCHANGED otherThanOverlay

\* get_realtime_suggestions resolves, with or without a suggestion, or
\* rejects; the finally block clears isLoading
FetchReturns ==
  /\ ov.fetches > 0
  /\ ov.at # "closed"
  /\ \E shown \in BOOLEAN :
       ov' = [ov EXCEPT !.fetches = @ - 1, !.isLoading = FALSE,
                        !.suggestion = IF shown THEN TRUE ELSE @]
  /\ oOp' = [NoOverlayOp EXCEPT !.op = "fetched"]
  /\ UNCHANGED otherThanOverlay

\* the listener of "recording-stopped" (or the close button) closes the window
OverlayClose ==
  /\ Listening("recording-stopped")
  /\ ov' = FreshOverlay
  /\ oOp' = [NoOverlayOp EXCEPT !.op = "close"]
  /\ UNCHANGED otherThanOverlay

OverlayIdle ==
  /\ ov = FreshOverlay
  /\ oOp = NoOverlayOp

NextOverlay ==
  \/ OverlayOpen
  \/ OnMountAwait
  \/ OnMountFetch
  \/ RealtimeSuggestion
  \/ OverlayTranscription
  \/ ManualRefresh
  \/ FetchReturns
  \/ OverlayClose

\* the awaited calls of the page return; nothing makes the backend push a
\* suggestion, a transcription or the end of the recording
FairOverlay ==
  /\ WF_vars(OnMountAwait)
  /\ WF_vars(OnMountFetch)
  /\ WF_vars(FetchReturns)

\* ==========================================================================
\* Smart turn detection (the SmartTurnService).  Times are in ms, the clock
\* advances by seconds; confidences are in tenths.
\* ==========================================================================
MaxSeconds == 3              \* how far the clock runs

MinSilenceForTurn == 700
MaxSilenceBeforeCutoff == 2000
SentenceCompleteBonus == 3   \* 0.3
TurnPhraseBonus == 4         \* 0.4
QuestionPenalty == 2         \* 0.2
BaseSilenceConfidence == 5   \* 0.5
SpeakerDoneConfidence == 6   \* 0.6

Ms(seconds) == seconds * 1000

\* texts as words followed by their punctuation
TurnTexts == {<<"hello">>, <<"hello", ".">>, <<"right", "?">>, <<"go ahead">>}

\* SENTENCE_ENDINGS, QUESTION_ENDINGS and (three of the) TURN_PHRASES
SentenceEndings(text) == text[Len(text)] \in {".", "!", "?"}
QuestionEndings(text) == text[Len(text)] = "?"
TurnPhrases(text) ==
  \/ text[Len(text)] = "go ahead"
  \/ Len(text) > 1 /\ text[Len(text) - 1] = "go ahead" /\ text[Len(text)] = "."
  \/ text[Len(text)] = "what do you think"
  \/ Len(text) > 1 /\ text[Len(text) - 1] \in {"what do you think", "right"}
                   /\ text[Len(text)] = "?"

CreateInitialState ==
  [isSpeaking |-> FALSE, lastSpeechTime |-> 0, silenceDuration |-> 0,
   currentText |-> <<>>, isFinal |-> FALSE, hasSentenceEnding |-> FALSE,
   hasQuestion |-> FALSE, hasTurnPhrase |-> FALSE]

NoTurn == [speakerDone |-> FALSE, confidence |-> 0, reason |-> None]

\* the confidence and the reason checkTurnEnd computes for a state
TurnEnd(state) ==
  IF state.silenceDuration >= MaxSilenceBeforeCutoff
    THEN [confidence |-> 10, reason |-> "silence"]
    ELSE IF state.silenceDuration >= MinSilenceForTurn
      THEN LET boosted ==
                 IF state.hasTurnPhrase
                   THEN [confidence |-> BaseSilenceConfidence + TurnPhraseBonus,
                         reason |-> "turn_phrase"]
                   ELSE IF state.hasSentenceEnding
                     THEN [confidence |-> BaseSilenceConfidence
                                            + SentenceCompleteBonus,
                           reason |-> "sentence_complete"]
                     ELSE [confidence |-> BaseSilenceConfidence,
                           reason |-> "continued"]
           IN  IF state.hasQuestion
                 THEN [confidence |-> boosted.confidence - QuestionPenalty,
                       reason |-> "question"]
                 ELSE boosted
      ELSE [confidence |-> 0, reason |-> "continued"]

\* checkTurnEnd emits a result for the state
Emits(state) ==
  /\ state.isSpeaking
  /\ TurnEnd(state).confidence >= SpeakerDoneConfidence
  /\ smart.callback

\* smartTurn.onTurn(callback)
OnTurn ==
  /\ ~smart.callback
  /\ smart' = [smart EXCEPT !.callback = TRUE]
  /\ stOp' = "onTurn"
  /\ UNCHANGED <<elapsed, emitted>>
  /\ UNCHANGED otherThanTurn

\* processTranscription(result), with checkTurnEnd when the result is final
ProcessTranscription ==
  /\ \E source \in AudioSources, text \in TurnTexts, isFinal \in BOOLEAN :
       LET heard == [smart.state[source] EXCEPT
                       !.lastSpeechTime = Ms(elapsed), !.isSpeaking = TRUE,
                       !.currentText = text, !.isFinal = isFinal]
           analyzed == [heard EXCEPT
                          !.hasSentenceEnding = SentenceEndings(text),
                          !.hasQuestion = QuestionEndings(text),
                          !.hasTurnPhrase = TurnPhrases(text),
                          !.silenceDuration = MinSilenceForTurn]
           end == TurnEnd(analyzed)
       IN  IF ~isFinal
             THEN /\ smart' = [smart EXCEPT !.state[source] = heard]
                  /\ emitted' = [emitted EXCEPT ![source] = NoTurn]
             ELSE IF Emits(analyzed)
               THEN /\ emitted' = [emitted EXCEPT ![source] =
                         [speakerDone |-> TRUE,
                          confidence |-> IF end.confidence < 10
                                           THEN end.confidence ELSE 10,
                          reason |-> end.reason]]
                    /\ smart' = [smart EXCEPT !.state[source] =
                                   [CreateInitialState EXCEPT !.currentText = <<>>]]
               ELSE /\ smart' = [smart EXCEPT !.state[source] =
                                   [analyzed EXCEPT !.currentText = <<>>]]
                    /\ emitted' = [emitted EXCEPT ![source] = NoTurn]
  /\ stOp' = "processTranscription"
  /\ UNCHANGED elapsed
  /\ UNCHANGED otherThanTurn

\* a second passes; the service has no timer and nothing of it runs
TurnTick ==
  /\ elapsed < MaxSeconds
  /\ elapsed' = elapsed + 1
  /\ stOp' = "tick"
  /\ UNCHANGED <<smart, emitted>>
  /\ UNCHANGED otherThanTurn

\* reset(), called when the pipeline stops
TurnReset ==
  /\ \E s \in AudioSources : smart.state[s] # CreateInitialState
  /\ smart' = [smart EXCEPT !.state = [s \in AudioSources |-> CreateInitialState]]
  /\ stOp' = "reset"
  /\ UNCHANGED <<elapsed, emitted>>
  /\ UNCHANGED otherThanTurn

TurnIdle ==
  /\ smart = [callback |-> FALSE,
              state |-> [s \in AudioSources |-> CreateInitialState]]
  /\ elapsed = 0
  /\ emitted = [s \in AudioSources |-> NoTurn]
  /\ stOp = None

NextTurn ==
  \/ OnTurn
  \/ ProcessTranscription
  \/ TurnTick
  \/ TurnReset

\* time passes
FairTurn == WF_vars(TurnTick)

\* ==========================================================================
\* Specifications
\* ==========================================================================
\* the parts a specification does not exercise are left out of it: their
\* variables hold None throughout
Untouched(parts) ==
  /\ "conc" \in parts => pc = None /\ kbWriter = None /\ kbReaders = None
       /\ kbSome = None /\ unit = None /\ unitNo = None /\ found = None
       /\ nodeRows = None /\ mentions = None /\ storedRows = None
       /\ entRows = None /\ relRows = None /\ observed = None
  /\ "know" \in parts => sources = None /\ chunks = None /\ lastOp = None
       /\ prevOp = None
  /\ "meet" \in parts => meetings = None /\ rows = None /\ mOp = None
  /\ "ask" \in parts => graph = None /\ askOp = None
  /\ "seg" \in parts => segs = None /\ ingested = None /\ sOp = None
       /\ current_meeting_id = None
  /\ "ing" \in parts => srcEntities = None /\ srcRelations = None
       /\ ingOp = None
  /\ "time" \in parts => clock = None /\ tOp = None
  /\ "items" \in parts => actionItems = None /\ iOp = None
  /\ "boot" \in parts => settings = None /\ page = None /\ engines = None
       /\ boot = None /\ bOp = None
  /\ "pipe" \in parts => svc = None /\ backend = None /\ pipe = None
       /\ task = None /\ wire = None /\ got = None /\ pOp = None
  /\ "ui" \in parts => ui = None /\ calls = None /\ be = None /\ uOp = None
  /\ "detail" \in parts => store = None /\ highlights = None /\ detail = None
       /\ loads = None /\ dOp = None
  /\ "overlay" \in parts => ov = None /\ oOp = None
  /\ "turn" \in parts => smart = None /\ elapsed = None /\ emitted = None
       /\ stOp = None

Parts == {"conc", "know", "meet", "ask", "seg", "ing", "time",
          "items", "boot", "pipe", "ui", "detail", "overlay", "turn"}

InitConc == ConcIdle /\ Untouched(Parts \ {"conc"})
SpecConc == InitConc /\ [][NextConc]_vars

Init == InitKnow /\ Untouched(Parts \ {"know"})
Spec == Init /\ [][NextKnow]_vars

InitMeet == MeetIdle /\ Untouched(Parts \ {"meet"})
SpecMeet == InitMeet /\ [][NextMeet]_vars

InitAsk == AskIdle /\ Untouched(Parts \ {"ask"})
SpecAsk == InitAsk /\ [][NextAsk]_vars

InitSeg == SegIdle /\ Untouched(Parts \ {"seg"})
SpecSeg == InitSeg /\ [][NextSeg]_vars

InitIng == IngIdle /\ KnowIdle /\ Untouched(Parts \ {"ing", "know"})
SpecIng == InitIng /\ [][NextIng]_vars

InitTime == TimeIdle /\ Untouched(Parts \ {"time"})
SpecTime == InitTime /\ [][NextTime]_vars

InitItems == ItemsIdle /\ Untouched(Parts \ {"items"})
SpecItems == InitItems /\ [][NextItems]_vars

InitBoot == BootIdle /\ Untouched(Parts \ {"boot"})
SpecBoot == InitBoot /\ [][NextBoot]_vars

InitPipe == PipeIdle /\ Untouched(Parts \ {"pipe"})
SpecPipe == InitPipe /\ [][NextPipe]_vars

InitUi == UiIdle /\ Untouched(Parts \ {"ui"})
SpecUi == InitUi /\ [][NextUi]_vars

InitDetail == DetailIdle /\ Untouched(Parts \ {"detail"})
SpecDetail == InitDetail /\ [][NextDetail]_vars

InitOverlay == OverlayIdle /\ Untouched(Parts \ {"overlay"})
SpecOverlay == InitOverlay /\ [][NextOverlay]_vars

InitTurn == TurnIdle /\ Untouched(Parts \ {"turn"})
SpecTurn == InitTurn /\ [][NextTurn]_vars
LiveTurn == SpecTurn /\ FairTurn
LiveOverlay == SpecOverlay /\ FairOverlay
LiveDetail == SpecDetail /\ FairDetail

\* ===================================================================== C1
\* C1: no reader observes the entities of an ingested unit without its
\* relations, or its relations without its entities (units whose text yields
\* a relationship).
C1_UnitVisibleAtomically ==
  \A u \in observed.ents \cup observed.rels :
    u[3] => (u \in observed.ents /\ u \in observed.rels)

\* ===================================================================== C2
\* C2: the store holds at most one Person/Topic node per normalized name,
\* in every interleaving of the producers' create-if-absent upserts.
C2_OneNodePerName == \A n \in Names : nodeRows[n] <= 1

\* ===================================================================== C3
\* C3: no operation holds the guard of the shared knowledge-base handle while
\* embedding or extraction inference is running.
C3_NoGuardDuringInference ==
  \A p \in Procs : pc[p] \in InferenceSteps => ~HoldsGuard(p)

\* ===================================================================== C4
\* C4: a read that has started never waits for an ingestion in progress: while
\* a producer is writing under its guard, the query can take its own guard.
IngestionInProgress == \E p \in Ingesters : pc[p] \in IngestSteps /\ kbSome

ChildrenOf(m) == {r \in rows : r.meeting_id = m}

C5_DeleteAllOrNothing ==
  mOp.op = "delete_meeting" =>
    /\ mOp.result = "ok" => (mOp.arg \notin meetings /\ ChildrenOf(mOp.arg) = {})
    /\ mOp.back <=> mOp.result = "ok"

\* a cascade that failed part-way was reported as an error
C5_PartialDeleteReported ==
  /\ mOp.op = "delete_meeting"
  /\ mOp.result = "err"
  /\ mOp.removed > 0
  /\ mOp.arg \in meetings
  /\ ~mOp.back

\* ===================================================================== C6
\* C6: after a successful delete_meeting(id), get_meeting(id) is None and the
\* segments, action items, decisions, topics and people of id are empty,
\* while what the accessors return for every other meeting is unchanged.
C6_DeletedMeetingIsGone ==
  [][(mOp'.op = "delete_meeting" /\ mOp'.result = "ok" /\ mOp' # mOp) =>
       /\ GetMeeting(meetings', mOp'.arg) = None
       /\ GetMeetingSegments(rows', mOp'.arg) = {}
       /\ GetMeetingActionItems(rows', mOp'.arg) = {}
       /\ GetMeetingDecisions(rows', mOp'.arg) = {}
       /\ GetMeetingTopics(rows', mOp'.arg) = {}
       /\ GetMeetingPeople(rows', mOp'.arg) = {}
       /\ \A o \in MeetingIds \ {mOp'.arg} :
            /\ GetMeeting(meetings', o) = GetMeeting(meetings, o)
            /\ GetMeetingSegments(rows', o) = GetMeetingSegments(rows, o)
            /\ GetMeetingActionItems(rows', o) = GetMeetingActionItems(rows, o)
            /\ GetMeetingDecisions(rows', o) = GetMeetingDecisions(rows, o)
            /\ GetMeetingTopics(rows', o) = GetMeetingTopics(rows, o)
            /\ GetMeetingPeople(rows', o) = GetMeetingPeople(rows, o)
            /\ GetMeetingKnowledge(rows', o) = GetMeetingKnowledge(rows, o)]_vars

\* a meeting with a segment and all that was derived from it was deleted
\* while another meeting keeps its own
C6_DeletedBesideOtherMeeting ==
  /\ mOp.op = "delete_meeting"
  /\ mOp.result = "ok"
  /\ mOp.removed > Cardinality(EnrichTables)
  /\ \E o \in meetings :
       GetMeetingSegments(rows, o) # {} /\ GetMeetingPeople(rows, o) # {}

\* ===================================================================== C7
\* C7 (as claimed): the value cleanup_orphaned_chunks returns is the number of
\* chunk rows it deleted.
C7_ReturnsRowsDeleted ==
  (lastOp.op = "cleanup" /\ lastOp.result = "ok") =>
    lastOp.value = Cardinality(lastOp.deleted)

\* C7 (amended): the value returned is the number of distinct source_id
\* values whose chunks were deleted in that run (orphaned source groups).
C7_ReturnsGroupsDeleted ==
  (lastOp.op = "cleanup" /\ lastOp.result = "ok") =>
    lastOp.value = Cardinality({c.source_id : c \in lastOp.deleted})

\* one orphaned group of more than one chunk was cleaned up
C7_GroupOfSeveralRowsDeleted ==
  /\ lastOp.op = "cleanup"
  /\ lastOp.result = "ok"
  /\ lastOp.value >= 1
  /\ Cardinality(lastOp.deleted) > lastOp.value

\* ===================================================================== C8
\* C8: a cleanup run deletes exactly the chunks whose source does not exist,
\* whichever representation of the source id the chunk stores.
\* The source a chunk refers to: the id at the end of either representation.
RefersTo(c) == c.source_id[Len(c.source_id)]

C8_DeletesExactlyOrphans ==
  (lastOp.op = "cleanup" /\ lastOp.result = "ok") =>
    /\ \A c \in chunks : RefersTo(c) \in sources
    /\ \A c \in lastOp.deleted : RefersTo(c) \notin sources

\* an orphan went while a chunk holding the full id of a live source stayed
C8_OrphanGoneFullIdKept ==
  /\ lastOp.op = "cleanup"
  /\ lastOp.result = "ok"
  /\ lastOp.deleted # {}
  /\ \E c \in chunks : c.source_id = Full(RefersTo(c))

\* ===================================================================== C9
\* C9: a cleanup run that directly follows a completed cleanup run deletes
\* no row and returns 0.
C9_SecondCleanupDeletesNothing ==
  (prevOp.op = "cleanup" /\ prevOp.result = "ok" /\ lastOp.op = "cleanup") =>
    /\ lastOp.deleted = {}
    /\ lastOp.result = "ok" => lastOp.value = 0

\* the first run deleted something, the second ran over the remaining chunks
C9_SecondRunAfterDeletingRun ==
  /\ prevOp.op = "cleanup" /\ prevOp.result = "ok" /\ prevOp.value > 0
  /\ lastOp.op = "cleanup" /\ lastOp.result = "ok"
  /\ chunks # {}

\* ==================================================================== C10
\* C10: search_knowledge returns at most limit results, and as many as the
\* search found (the smaller of limit and the number of chunks): a hit whose
\* source cannot be resolved is returned with the fallback label.
MinOf(a, b) == IF a < b THEN a ELSE b

C10_SearchKeepsEveryHit ==
  (lastOp.op = "search" /\ lastOp.result = "ok") =>
    /\ Len(lastOp.results) <= lastOp.limit
    /\ Len(lastOp.results) = MinOf(lastOp.limit, Cardinality(chunks))
    /\ \A i \in 1..Len(lastOp.results) :
         /\ lastOp.results[i].chunk \in chunks
         /\ RefersTo(lastOp.results[i].chunk) \notin sources =>
              lastOp.results[i].source_title = Fallback(lastOp.results[i].chunk)

\* a full page of results, one of them a hit of a missing source
C10_FallbackHitReturned ==
  /\ lastOp.op = "search"
  /\ lastOp.result = "ok"
  /\ lastOp.limit = MaxLimit
  /\ Len(lastOp.results) = lastOp.limit
  /\ \E i \in 1..Len(lastOp.results) :
       /\ RefersTo(lastOp.results[i].chunk) \notin sources
       /\ lastOp.results[i].source_title = Fallback(lastOp.results[i].chunk)

\* ==================================================================== C11
\* C11: when none of its collaborators fails, the Graph-RAG query returns a
\* bundle and no error, whatever the question matches; for a question with
\* no entity and no temporal phrase the graph sections are empty and the
\* vector-search section holds what the vector search found.
C11_NoErrorWhenNothingMatched ==
  (askOp.op = "ask" /\ askOp.fails = {}) =>
    /\ askOp.ok
    /\ askOp.result = "ok"
    /\ (askOp.question.entities = {} /\ ~askOp.question.temporal) =>
         /\ askOp.bundle.meetings = {}
         /\ askOp.bundle.people = {}
         /\ askOp.bundle.topics = {}
         /\ askOp.bundle.hits = graph.docs

\* a question that names nothing got a bundle of vector-search hits only
C11_OnlyVectorSection ==
  /\ askOp.op = "ask"
  /\ askOp.fails = {}
  /\ askOp.question.entities = {}
  /\ ~askOp.question.temporal
  /\ askOp.ok
  /\ graph.meetings # {}
  /\ askOp.context = <<"knowledge">>

\* ==================================================================== C12
\* C12: in a Graph-RAG query that returned a bundle, each of the sections
\* related meetings, related people and related topics whose own computation
\* did not fail holds what the store has for the question, whichever of the
\* other two failed.
C12_SectionsIndependent ==
  (askOp.op = "ask" /\ askOp.ok) =>
    LET q == askOp.question IN
    /\ "meetings" \notin askOp.fails =>
         askOp.bundle.meetings =
           {m \in graph.meetings : m.about \in q.entities /\ (q.temporal => m.inWindow)}
    /\ "people" \notin askOp.fails =>
         (graph.people \cap q.entities) \subseteq askOp.bundle.people
    /\ "topics" \notin askOp.fails =>
         askOp.bundle.topics = graph.topics \cap q.entities

\* the meetings section failed and the people and topics sections are there
C12_OtherSectionsPresent ==
  /\ askOp.op = "ask"
  /\ askOp.ok
  /\ askOp.fails = {"meetings"}
  /\ \E m \in graph.meetings : m.about \in askOp.question.entities
  /\ askOp.bundle.meetings = {}
  /\ askOp.bundle.people # {}
  /\ askOp.bundle.topics # {}

\* ==================================================================== C13
\* C13: ask() calls the LLM only with a non-empty context; with an empty
\* context the caller gets the fixed no-relevant-information answer and the
\* LLM is not called.
C13_LlmOnlyWithContext ==
  askOp.op = "ask" =>
    /\ askOp.llmCalled => askOp.context # <<>>
    /\ (askOp.result = "ok" /\ askOp.context = <<>>) =>
         (askOp.answer = "no_info" /\ ~askOp.llmCalled)

\* a question over a store that has data for other questions only
C13_ShortCircuited ==
  /\ askOp.op = "ask"
  /\ askOp.result = "ok"
  /\ askOp.context = <<>>
  /\ askOp.answer = "no_info"
  /\ graph.meetings # {}

\* ==================================================================== C14
\* C14: add_segment returns Ok and the segment row is in the store when the
\* embedding fails and when the extraction fails; only a failed write of the
\* segment itself makes it fail.
C14_SegmentStoredDespiteFailures ==
  (sOp.op = "add_segment" /\ (~sOp.embedOk \/ ~sOp.extractOk)) =>
    /\ sOp.result = "ok"
    /\ \E r \in segs : r.n = sOp.value /\ r.meeting_id = sOp.arg.meeting_id
                       /\ r.text = sOp.arg.text

\* a segment stored without its embedding, and without enrichment
C14_StoredWithoutEmbedding ==
  /\ sOp.op = "add_segment"
  /\ ~sOp.embedOk
  /\ ~sOp.enriched
  /\ ~sOp.embedded
  /\ \E r \in segs : r.n = sOp.value /\ r.text = sOp.arg.text

C17_BoundaryGoesToEarlierRange ==
  (sOp.op = "relabel_speakers" /\ sOp.result = "ok" /\ Len(sOp.diarization) = 2
     /\ sOp.diarization[1].end_ms = sOp.diarization[2].start_ms) =>
    \A b \in sOp.before :
      (b.meeting_id = sOp.arg /\ b.speaker = <<"Guest">>
         /\ (b.start_ms + b.end_ms) \div 2 = sOp.diarization[1].end_ms) =>
        \E r \in segs : r.n = b.n /\ r.speaker = sOp.diarization[1].label

\* a segment with its midpoint on the shared boundary was relabeled
C17_MidpointOnBoundary ==
  /\ sOp.op = "relabel_speakers"
  /\ sOp.result = "ok"
  /\ Len(sOp.diarization) = 2
  /\ sOp.diarization[1].end_ms = sOp.diarization[2].start_ms
  /\ \E b \in sOp.before :
       /\ b.meeting_id = sOp.arg
       /\ b.speaker = <<"Guest">>
       /\ (b.start_ms + b.end_ms) \div 2 = sOp.diarization[1].end_ms
       /\ \E r \in segs : r.n = b.n /\ r.speaker = sOp.diarization[1].label

\* ==================================================================== C18
\* C18: relabel_speakers(meeting_id, ranges) gives every generically-labeled
\* segment of the meeting whose midpoint lies in a range the label of a range
\* that holds the midpoint, and leaves every other segment as it was:
\* segments with another label, segments with the midpoint in no range and
\* segments of other meetings.
Holding(b, diarization) ==
  {i \in 1..Len(diarization) :
     /\ diarization[i].start_ms <= (b.start_ms + b.end_ms) \div 2
     /\ (b.start_ms + b.end_ms) \div 2 <= diarization[i].end_ms}

C18_RelabelsOnlyGenericInRange ==
  (sOp.op = "relabel_speakers" /\ sOp.result = "ok") =>
    /\ Cardinality(segs) = Cardinality(sOp.before)
    /\ \A b \in sOp.before :
         IF b.meeting_id = sOp.arg /\ b.speaker = <<"Guest">>
              /\ Holding(b, sOp.diarization) # {}
           THEN \E i \in Holding(b, sOp.diarization) :
                  [b EXCEPT !.speaker = sOp.diarization[i].label] \in segs
           ELSE b \in segs

\* one segment relabeled, beside a "Guest" segment of another meeting, with
\* its midpoint in a range, that kept its speaker
C18_RelabeledBesideUntouched ==
  /\ sOp.op = "relabel_speakers"
  /\ sOp.result = "ok"
  /\ sOp.value = 1
  /\ \E b \in sOp.before :
       b \in segs /\ b.speaker = <<"Guest">> /\ b.meeting_id # sOp.arg
                  /\ Holding(b, sOp.diarization) # {}

\* ==================================================================== C15
\* C15: add_knowledge_source whose chunk loop succeeds returns Ok with every
\* chunk stored, whatever the extraction does on the sampled paragraphs: a
\* sample whose entity extraction fails leaves no rows, a sample whose
\* relationship extraction fails leaves its entities and no relations, and
\* every other sample is processed.
SamplesOf(paras) ==
  {i \in 1..Len(paras) : paras[i].len > MinParagraphLen}

C15_ExtractionFailureContained ==
  (ingOp.op = "add_knowledge_source" /\ ingOp.stored = ingOp.nChunks
     /\ ingOp.failedWrites = 0) =>
    /\ ingOp.result = "ok"
    /\ Cardinality({c \in chunks : c.source_id = Full(ingOp.source)}) = ingOp.nChunks
    /\ \A i \in SamplesOf(ingOp.paras) :
         LET row == [source |-> ingOp.source, at |-> i] IN
         /\ (row \in srcEntities) <=> (ingOp.paras[i].ner = "ents")
         /\ (row \in srcRelations) <=>
              (ingOp.paras[i].ner = "ents" /\ ingOp.paras[i].rel = "rels")

\* the first sample failed in entity extraction, the second gave entities
\* but failed in relationship extraction
C15_LaterSampleProcessed ==
  /\ ingOp.op = "add_knowledge_source"
  /\ ingOp.result = "ok"
  /\ Len(ingOp.paras) = 2
  /\ ingOp.paras[1].len > MinParagraphLen /\ ingOp.paras[1].ner = "fail"
  /\ ingOp.paras[2].len > MinParagraphLen /\ ingOp.paras[2].ner = "ents"
  /\ ingOp.paras[2].rel = "fail"
  /\ [source |-> ingOp.source, at |-> 2] \in srcEntities
  /\ [source |-> ingOp.source, at |-> 2] \notin srcRelations

\* ==================================================================== C20
\* C20: an operation during which a store call failed returns an error to
\* its caller.
C20_StoreFailurePropagated ==
  (ingOp.op = "add_knowledge_source" /\ ingOp.failedWrites > 0) =>
    ingOp.result = "err"

\* ==================================================================== C19
\* C19: delete_meeting(id) for an id that names no meeting in the store
\* returns an error to its caller.
C19_MissingMeetingIsError ==
  (mOp.op = "delete_meeting" /\ ~mOp.existed) => mOp.result = "err"

Matches(text, kind) == \E i \in 1..Len(text) : text[i].kind = kind

MatchedKinds(text) == {k \in PhraseKinds \ {"other"} : Matches(text, k)}

WinningRule(text) ==
  IF Matches(text, "weeks_ago") THEN "weeks_ago"
  ELSE IF Matches(text, "days_ago") THEN "days_ago"
  ELSE IF Matches(text, "last_week") THEN "last_week"
  ELSE IF Matches(text, "last_month") THEN "last_month"
  ELSE IF Matches(text, "yesterday") THEN "yesterday"
  ELSE None

C22_FirstRuleInPriorityWins ==
  tOp.op = "parse" =>
    /\ tOp.rule = WinningRule(tOp.text)
    /\ tOp.rule # None =>
         \E i \in 1..Len(tOp.text) :
           /\ tOp.text[i].kind = tOp.rule
           /\ \A j \in 1..(i - 1) : tOp.text[j].kind # tOp.rule
           /\ tOp.window = Window(tOp.rule, tOp.text[i].n, tOp.now)

\* a text with two patterns whose lower-priority phrase comes first
C22_LaterPhraseWins ==
  /\ tOp.op = "parse"
  /\ Cardinality(MatchedKinds(tOp.text)) = 2
  /\ tOp.text[1].kind # tOp.rule
  /\ tOp.text[2].kind = tOp.rule

\* ==================================================================== C23
\* C23: every rule returns exactly its half-open window, with start < end:
\* "N days ago" [now-Nd-12h, now-Nd+12h), "N weeks ago" [now-7Nd-3.5d,
\* now-7Nd+3.5d), "last week" [now-14d, now-7d), "last month" [now-30d, now),
\* "yesterday" [now-2d, now-1d); a text that matches no pattern gets no
\* window.  (Times in hours: 1d = 24, 3.5d = 84.)
MatchedN(text, kind) == text[CHOOSE i \in 1..Len(text) :
                               /\ text[i].kind = kind
                               /\ \A j \in 1..(i - 1) : text[j].kind # kind].n

C23_ExactWindows ==
  tOp.op = "parse" =>
    LET w == tOp.window
        now == tOp.now
    IN /\ tOp.rule = None => ~w.some
       /\ tOp.rule # None => w.some /\ w.start < w.end
       /\ tOp.rule = "days_ago" =>
            LET n == MatchedN(tOp.text, "days_ago")
            IN w.start = now - n * 24 - 12 /\ w.end = now - n * 24 + 12
       /\ tOp.rule = "weeks_ago" =>
            LET n == MatchedN(tOp.text, "weeks_ago")
            IN w.start = now - 7 * n * 24 - 84 /\ w.end = now - 7 * n * 24 + 84
       /\ tOp.rule = "last_week" =>
            w.start = now - 14 * 24 /\ w.end = now - 7 * 24
       /\ tOp.rule = "last_month" => w.start = now - 30 * 24 /\ w.end = now
       /\ tOp.rule = "yesterday" => w.start = now - 2 * 24 /\ w.end = now - 24

\* "N days ago" with N > 1 parsed, and its window returned
C23_DaysAgoWindow ==
  /\ tOp.op = "parse"
  /\ tOp.rule = "days_ago"
  /\ MatchedN(tOp.text, "days_ago") > 1
  /\ tOp.window.some

\* ==================================================================== C24
\* C24: the assembled context lists exactly the non-empty sections of the
\* bundle, in the order temporal note, extracted entities, related meetings,
\* related people, related topics, open action items, recent decisions,
\* vector-search hits; an empty section leaves nothing in the context.
SectionOrder == <<"temporal", "entities", "meetings", "people", "topics",
                  "items", "decisions", "knowledge">>

HasContent(b, name) ==
  CASE name = "temporal"  -> b.temporal
    [] name = "entities"  -> b.entities # {}
    [] name = "meetings"  -> b.meetings # {}
    [] name = "people"    -> b.people # {}
    [] name = "topics"    -> b.topics # {}
    [] name = "items"     -> b.items > 0
    [] name = "decisions" -> b.decisions # {}
    [] name = "knowledge" -> b.hits > 0

PlaceOf(name) == CHOOSE i \in 1..Len(SectionOrder) : SectionOrder[i] = name

C24_NonEmptySectionsInOrder ==
  (askOp.op = "ask" /\ askOp.ok) =>
    LET c == askOp.context IN
    /\ \A i \in 1..Len(c) : \E k \in 1..Len(SectionOrder) : c[i] = SectionOrder[k]
    /\ \A i, j \in 1..Len(c) : i < j => PlaceOf(c[i]) < PlaceOf(c[j])
    /\ \A k \in 1..Len(SectionOrder) :
         (\E i \in 1..Len(c) : c[i] = SectionOrder[k])
           <=> HasContent(askOp.bundle, SectionOrder[k])

\* a context of several sections with an empty section left out between them
C24_SectionOmittedBetween ==
  /\ askOp.op = "ask"
  /\ askOp.ok
  /\ askOp.bundle.meetings = {}
  /\ askOp.bundle.people = {}
  /\ askOp.context = <<"entities", "topics", "decisions", "knowledge">>

\* ==================================================================== C25
\* C25: the recent-decisions section holds only decisions of related meetings
\* whenever at least one related meeting was found, and the decisions of all
\* meetings only when none was found.
C25_DecisionsScopedToRelatedMeetings ==
  (askOp.op = "ask" /\ askOp.ok) =>
    LET b == askOp.bundle IN
    /\ b.meetings # {} => b.decisions = graph.decisions \cap b.meetings
    /\ b.meetings = {} => b.decisions = graph.decisions

\* related meetings were found, and the decision of another meeting was left out
C25_OtherMeetingsDecisionLeftOut ==
  /\ askOp.op = "ask"
  /\ askOp.ok
  /\ askOp.bundle.meetings # {}
  /\ askOp.bundle.decisions # {}
  /\ \E d \in graph.decisions : d \notin askOp.bundle.meetings

\* ==================================================================== C26
\* C26: an action item whose status is "done" or "completed" never appears
\* among the open action items: every item the dashboard lists as open, and
\* every item it counts as open, has another status.
C26_NoDoneItemListedOpen ==
  iOp.op = "load" =>
    /\ \A k \in 1..Len(iOp.upcoming) :
         iOp.upcoming[k].status \notin {"done", "completed"}
    /\ (iOp.result = "ok") =>
         iOp.openActions =
           Cardinality({i \in 1..Len(actionItems) :
                          actionItems[i].status \notin {"done", "completed"}})

\* ==================================================================== C27
\* C27: every entity_relation row has exactly one provenance: its meeting_id
\* is set or its knowledge_source_id is set, never both and never neither.
C27_ExactlyOneProvenance ==
  \A r \in EntityRelations :
    (r.meeting_id # None) # (r.knowledge_source_id # None)

\* relations of a meeting and of a knowledge source are in the table together
C27_RowsOfBothProducers ==
  /\ \E r \in EntityRelations : r.meeting_id # None
  /\ \E r \in EntityRelations : r.knowledge_source_id # None

\* ==================================================================== C28
\* C28 as stated: a transcription is saved as a segment exactly when it is
\* final, its trimmed text is non-empty and a meeting is active; it is then
\* saved once, under the current meeting id, and any other transcription
\* creates no segment.
TranscriptionStep == sOp'.op \in {"add_segment", "dropped"} /\ sOp' # sOp

Qualifies ==
  sOp'.is_final /\ Trim(sOp'.text) # <<>> /\ current_meeting_id # None

SavedOnceUnderCurrentMeeting ==
  \E r \in segs' \ segs :
    /\ segs' = segs \cup {r}
    /\ r.meeting_id = current_meeting_id
    /\ r.text = sOp'.text

C29_KnowledgeBaseOnlyAfterEntities ==
  bOp.cmd = "initialize_knowledge_base" => bOp.entitiesReady

\* ==================================================================== C30
\* C30: the setup wizard is shown only when the LLM is not configured: once
\* the root page has made its check with llm_url non-empty, or with
\* llm_setup_complete "true" or "skipped", it never shows the wizard.
C30_ConfiguredNeverShowsWizard ==
  boot.configuredAtCheck => Screen(page) # "wizard"

\* ==================================================================== C31
\* C31: after AudioPipeline.destroy() followed by an AudioPipeline.initialize()
\* that has resolved (the pipeline is initialized by an initialize() called
\* after the last destroy()), the pipeline is subscribed again: the
\* transcription service is listening and the pipeline's callback is
\* registered.
C31_ResubscribedAfterDestroy ==
  (pipe.again /\ pipe.isInitialized) =>
     (svc.isListening /\ svc.callback)

\* ==================================================================== C32
\* C32: a result with isFinal = true that reaches handleTranscription appends
\* exactly one segment with the result's text to the history that
\* getTranscripts() returns and leaves no current segment for its source.
C32_FinalResultAppended ==
  (pOp.op = "handleTranscription" /\ pOp.isFinal) =>
     /\ Len(GetTranscripts) = pOp.before + 1
     /\ GetTranscripts[Len(GetTranscripts)].text = pOp.text
     /\ CurrentSegment(pipe, pOp.source) = NoSegment

\* ==================================================================== C33
\* C33: a transcription event of the backend is passed to the registered
\* callback exactly once: an event that reached the callback and has no
\* message left in flight was passed to it one time.
C33_CallbackOncePerEvent ==
  \A n \in 1..backend.produced :
     (got[n] > 0 /\ \A m \in wire : m.result.text # n) => got[n] = 1

\* ==================================================================== C34
\* C34: the main UI invokes start_meeting only when currentMeetingId is null
\* and no other start_meeting invocation is in flight.
C34_OneStartMeetingAtATime ==
  (uOp.op = "invoke" /\ uOp.cmd = "start_meeting") =>
     (uOp.current = NoMeetingId /\ uOp.inflight = 0)

\* ==================================================================== C35
\* C35: when endMeeting returns, either it has stopped the recording, ended
\* the meeting in the backend and cleared currentMeetingId, or it has done
\* none of these; it never returns with the recording stopped while the
\* meeting is still current.
C35_EndMeetingAllOrNothing ==
  (uOp.op = "returned" /\ uOp.fn = "endMeeting") =>
     /\ uOp.stopped = uOp.ended
     /\ uOp.ended = uOp.cleared
     /\ uOp.stopped => uOp.current = NoMeetingId

\* ==================================================================== C36
\* C36: once the post-meeting highlight processing of the displayed meeting
\* has finished (its event was dispatched), processingHighlights of the
\* detail page eventually becomes false and stays false.
C36_IndicatorEventuallyOff ==
  (highlights = "done") ~> [](~detail.processingHighlights)

\* ==================================================================== C37
\* C37: when the overlay mounts, get_realtime_suggestions is invoked once as
\* part of onMount, after the event listeners are registered.
C37_FetchOnMount ==
  oOp.op = "mounted" => (oOp.invoked = 1 /\ ov.fetches = 1)

\* ==================================================================== C38
\* C38: in the overlay, whenever isLoading is true it eventually becomes
\* false again, so that the manual refresh control is enabled.
C38_LoadingEventuallyOff ==
  ov.isLoading ~> ~ov.isLoading

\* ==================================================================== C39
\* C39: when a source that was speaking has been silent for at least
\* maxSilenceBeforeCutoff (2000 ms), a turn-end result with reason 'silence'
\* and confidence 1.0 is emitted for that source.
LongSilent(s) ==
  /\ smart.callback
  /\ smart.state[s].isSpeaking
  /\ Ms(elapsed) - smart.state[s].lastSpeechTime >= MaxSilenceBeforeCutoff

C39_SilenceForcesTurnEnd ==
  \A s \in AudioSources :
     LongSilent(s) ~>
        (emitted[s] = [speakerDone |-> TRUE, confidence |-> 10,
                       reason |-> "silence"])

====
